---------------------------- MODULE Spec2Model ----------------------------
(***************************************************************************)
(* Execution-plan parsing of the benchmark harness.                        *)
(*                                                                         *)
(*   Parser A  datafusion/parse_datafusion_output.py   _build_tree         *)
(*   Assembler datafusion/visualize_datafusion_output.py _assign_node_ids  *)
(*   Parser B  duckdb/execute_queries.py  get_execution_time_breakdown     *)
(*   Parser C  snowflake/visualize_snowflake_output.py                     *)
(*             generate_combined_visualization_snowflake                   *)
(*   Batch drivers  process_all_datafusion_plans,                          *)
(*             process_snowflake_plan_dir, process_all_duckdb_plans        *)
(*   DuckDB runner  duckdb/execute_queries.py  main                        *)
(*   Unit normalizer  datafusion/parse_datafusion_output.py                *)
(*                    _parse_metric_value, _normalize_metrics              *)
(*                                                                         *)
(* Python objects are modelled by their identity: a plan node of Parser A  *)
(* is an index into heap, and a list of nodes is a sequence of indices.    *)
(* A plan text is a sequence of one-character strings.  Times of Parser B  *)
(* are whole ticks and a percentage is an exact fraction.                  *)
(***************************************************************************)
EXTENDS Integers, Sequences, FiniteSets, TLC

VARIABLES
    plan_text,   \* Parser A: the plan_text of the line the loop consumed last
    heap,        \* Parser A: the node dicts, in creation order
    roots,       \* Parser A: _build_tree's roots (node ids)
    stack,       \* Parser A: _build_tree's stack of open ancestors (node ids)
    flat,        \* Parser A: _build_tree's flat (node ids)
    pcA,         \* Parser A: "loop", "build_error", "parsed", "rendered", "render_error"
    ids,         \* assembler: _assign_node_ids' result, node id -> number
    all_nodes,   \* assembler: _collect_nodes' result
    profile,       \* Parser B: profile_data, the loaded JSON profile
    pcB,           \* Parser B: "idle", "start", "collect", "build", "assign", "done", "error"
    root_latency,  \* Parser B: root wall-clock latency in ticks
    breakdown,     \* Parser B: the returned dict without operator_tree
    query_root,    \* Parser B: the nested operator tree under the synthetic root
    nodes,         \* Parser B: operator_tree.nodes
    edges,         \* Parser B: operator_tree.edges
    value,         \* normalizer: the str handed to _parse_metric_value
    parsed,        \* normalizer: what _parse_metric_value(value) gave
    metrics,       \* normalizer: _normalize_metrics of {key: parsed}
    metrics_again, \* normalizer: _normalize_metrics applied to metrics
    reparsed,      \* normalizer: _parse_metric_value applied to parsed
    pcN,           \* normalizer: "idle", "start", "parsed", "error",
                   \*   "normalized", "renormalized", "reparsed"
    lines,         \* Parser A: text.splitlines() of parse_datafusion_explain_text
    plan_lines,    \* Parser A: the plan texts of the table rows still to build
    pcT,           \* Parser A: "idle", "locate", "build", "returned"
    plan_json,       \* Parser C: the plan JSON
    stats,           \* Parser C: the operator statistics, as given
    summary,         \* Parser C: the summary dict or None
    graph,           \* Parser C: the Digraph's node and edge statements
    labels,          \* Parser C: labels, by the OPERATOR_ID in them
    breakdown_data,  \* Parser C: component -> list of seconds
    all_components,  \* Parser C: the components seen so far
    pcC,             \* Parser C: "idle", "render", "plot", "done", "render_error"
    driver,      \* batch: "datafusion", "snowflake" or "duckdb"
    overwrite,   \* batch: the overwrite argument
    plan_files,  \* batch: the plan files found, in the order of the loop
    visited,     \* batch: how many plan files the loop has taken
    written,     \* batch: the plan files (positions) whose image exists
    processed,   \* batch: the processed counter
    skipped,     \* batch: the skipped counter
    failures,    \* batch: the failures list (positions)
    pcD,         \* batch: "idle", "loop", "done", "aborted"
    twin,        \* assembler: a second run, over nodes of other identities
    query_numbers,     \* runner: the queries to run, in order
    iterations,        \* runner: the iterations argument
    query_idx,         \* runner: how many queries the outer loop has taken
    iter,              \* runner: i of the inner loop
    iteration_times,   \* runner: the times recorded for the current query
    elapsed,           \* runner: the local elapsed; None while unbound
    results,           \* runner: query number -> recorded times
    profiling_output,  \* runner: the session's profiling_output setting
    saved,             \* runner: None, or the results written to output_file
    executed,          \* runner: the executions so far, as
                       \*   [query, iter, completed] (history)
    pcR                \* runner: "idle", "query", "iterate", "broken", "done"

varsA == <<plan_text, heap, roots, stack, flat, pcA, ids, all_nodes>>

varsB == <<profile, pcB, root_latency, breakdown, query_root, nodes, edges>>

varsN == <<value, parsed, metrics, metrics_again, reparsed, pcN>>

varsT == <<lines, plan_lines, pcT>>

varsC == <<plan_json, stats, summary, graph, labels, breakdown_data,
           all_components, pcC>>

varsD == <<driver, overwrite, plan_files, visited, written, processed,
           skipped, failures, pcD>>

varsG == <<twin>>

varsR == <<query_numbers, iterations, query_idx, iter, iteration_times, elapsed,
           results, profiling_output, saved, executed, pcR>>

vars == <<varsA, varsB, varsN, varsT, varsC, varsD, varsG, varsR>>

\* What the actions of one component leave alone.
restA == <<varsB, varsN, varsT, varsC, varsD, varsG, varsR>>

restB == <<varsA, varsN, varsT, varsC, varsD, varsG, varsR>>

restN == <<varsA, varsB, varsT, varsC, varsD, varsG, varsR>>

restT == <<varsB, varsN, varsC, varsD, varsG, varsR>>

restC == <<varsA, varsB, varsN, varsT, varsD, varsG, varsR>>

restD == <<varsA, varsB, varsN, varsT, varsC, varsG, varsR>>

restG == <<varsB, varsN, varsT, varsC, varsD, varsR>>

\* A component that does not run.
IdleN ==
    /\ value = <<>>
    /\ parsed = <<>>
    /\ metrics = <<>>
    /\ metrics_again = <<>>
    /\ reparsed = <<>>
    /\ pcN = "idle"

IdleT ==
    /\ lines = <<>>
    /\ plan_lines = <<>>
    /\ pcT = "idle"

IdleC ==
    /\ plan_json = <<>>
    /\ stats = <<>>
    /\ summary = <<>>
    /\ graph = <<>>
    /\ labels = <<>>
    /\ breakdown_data = <<>>
    /\ all_components = {}
    /\ pcC = "idle"

IdleD ==
    /\ driver = ""
    /\ overwrite = FALSE
    /\ plan_files = <<>>
    /\ visited = 0
    /\ written = {}
    /\ processed = 0
    /\ skipped = 0
    /\ failures = <<>>
    /\ pcD = "idle"

IdleG == twin = <<>>

IdleR ==
    /\ query_numbers = <<>>
    /\ iterations = 0
    /\ query_idx = 0
    /\ iter = 0
    /\ iteration_times = <<>>
    /\ elapsed = <<>>
    /\ results = <<>>
    /\ profiling_output = ""
    /\ saved = <<>>
    /\ executed = {}
    /\ pcR = "idle"

----------------------------------------------------------------------------
(* Bounds *)

MaxNodes == 5

MaxIndent == 6

MaxTrail == 1

MaxProfile == 3

----------------------------------------------------------------------------
(* Generic helpers *)

None == <<>>

Some(x) == <<x>>

Last(s) == s[Len(s)]

Front(s) == SubSeq(s, 1, Len(s) - 1)

RECURSIVE Reverse(_)
Reverse(s) == IF s = <<>> THEN <<>> ELSE Append(Reverse(Tail(s)), Head(s))

Range(s) == {s[i] : i \in DOMAIN s}

----------------------------------------------------------------------------
(* Parser A: text helpers *)

SP == " "

RECURSIVE Spaces(_)
Spaces(n) == IF n = 0 THEN <<>> ELSE <<SP>> \o Spaces(n - 1)

\* The plan texts a table row can carry: indentation, an operator text
\* (or nothing), trailing blanks.
PlanTexts ==
    {Spaces(l) \o b \o Spaces(t) :
        l \in 0..MaxIndent, b \in {<<>>, <<"a">>}, t \in 0..MaxTrail}

rstrip_Nothing(s) == s

RECURSIVE rstrip(_)
rstrip(s) == IF s # <<>> /\ Last(s) = SP THEN rstrip(Front(s)) ELSE s

RECURSIVE lstrip(_)
lstrip(s) == IF s # <<>> /\ Head(s) = SP THEN lstrip(Tail(s)) ELSE s

LineDepth_NoHalving(text) == Len(text) - Len(lstrip(text))

\* leading_spaces = len(text) - len(text.lstrip(" ")); depth = leading_spaces // 2
LineDepth(text) == (Len(text) - Len(lstrip(text))) \div 2

----------------------------------------------------------------------------
(* Parser A: _build_tree *)

\* a node whose depth counts on from a list another call fills
NewNode_SharedCounter(text, depth) ==
    [raw |-> lstrip(text), depth |-> depth + Len(nodes), children |-> <<>>]

NewNode(text, depth) == [raw |-> lstrip(text), depth |-> depth, children |-> <<>>]

ParentOf_AlwaysLast(stk, depth) == Last(stk)

\* parent = stack[-1] if depth > len(stack) else stack[depth - 1]
ParentOf(stk, depth) == IF depth > Len(stk) THEN Last(stk) ELSE stk[depth]

StackAfter_NoTruncate(stk, depth, n) == Append(stk, n)

\* stack = [node] at depth 0; otherwise stack = stack[:depth] unless the
\* indentation jumped; then stack.append(node)
StackAfter(stk, depth, n) ==
    IF depth = 0 THEN <<n>>
    ELSE IF depth > Len(stk) THEN Append(stk, n)
    ELSE Append(SubSeq(stk, 1, depth), n)

AttachChild_SkipOnJump(h, stk, depth, n) ==
    IF depth > Len(stk) THEN h
    ELSE [h EXCEPT ![ParentOf(stk, depth)].children = Append(@, n)]

AttachChild_Prepend(h, stk, depth, n) ==
    [h EXCEPT ![ParentOf(stk, depth)].children = <<n>> \o @]

\* parent["children"].append(node)
AttachChild(h, stk, depth, n) ==
    [h EXCEPT ![ParentOf(stk, depth)].children = Append(@, n)]

InitA ==
    /\ plan_text = <<>>
    /\ heap = <<>>
    /\ roots = <<>>
    /\ stack = <<>>
    /\ flat = <<>>
    /\ pcA = "loop"
    /\ ids = <<>>
    /\ all_nodes = <<>>
    /\ profile = <<>>
    /\ pcB = "idle"
    /\ root_latency = 0
    /\ breakdown = <<>>
    /\ query_root = <<>>
    /\ nodes = <<>>
    /\ edges = <<>>
    /\ IdleN
    /\ IdleT
    /\ IdleC
    /\ IdleD
    /\ IdleG
    /\ IdleR

\* The body of `for col_left, plan_text in plan_lines` for one plan_text.
BuildTreeStep(line) ==
    LET text == rstrip(line)
        depth == LineDepth(text)
        n == Len(heap) + 1
        h1 == Append(heap, NewNode(text, depth))
    IN
    /\ plan_text' = line
    /\ IF text = <<>>
       THEN UNCHANGED <<heap, roots, stack, flat, pcA>>
       ELSE /\ Len(heap) < MaxNodes
            /\ IF depth = 0
               THEN /\ heap' = h1
                    /\ roots' = Append(roots, n)
                    /\ stack' = StackAfter(stack, depth, n)
                    /\ flat' = Append(flat, n)
                    /\ pcA' = pcA
               ELSE IF depth > Len(stack) /\ stack = <<>>
               THEN \* stack[-1] of an empty list: IndexError
                    /\ pcA' = "build_error"
                    /\ UNCHANGED <<heap, roots, stack, flat>>
               ELSE /\ heap' = AttachChild(h1, stack, depth, n)
                    /\ stack' = StackAfter(stack, depth, n)
                    /\ flat' = Append(flat, n)
                    /\ UNCHANGED <<roots, pcA>>

\* One iteration of `for col_left, plan_text in plan_lines`.
BuildTreeLine ==
    /\ pcA = "loop"
    /\ \E line \in PlanTexts : BuildTreeStep(line)
    /\ UNCHANGED <<ids, all_nodes, restA>>

\* plan_lines is exhausted: return roots, flat
BuildTreeReturn ==
    /\ pcA = "loop"
    /\ pcA' = "parsed"
    /\ UNCHANGED <<plan_text, heap, roots, stack, flat, ids, all_nodes, restA>>

----------------------------------------------------------------------------
(* Assembler for Parser A output *)

RECURSIVE AssignLoop(_, _, _, _)
AssignLoop(h, stk, idmap, counter) ==
    IF stk = <<>> THEN idmap
    ELSE LET n == Last(stk)
             fresh == n \notin DOMAIN idmap
         IN AssignLoop(h, Front(stk) \o h[n].children,
                       IF fresh THEN idmap @@ (n :> counter) ELSE idmap,
                       IF fresh THEN counter + 1 ELSE counter)

\* ids by the order of the nodes' identities, not by the walk
_assign_node_ids_ByIdentity(h, rts) ==
    LET seen == DOMAIN AssignLoop(h, Reverse(rts), <<>>, 0)
    IN [n \in seen |-> Cardinality({m \in seen : m < n})]

\* Stable 0..N-1 ids in DFS order
_assign_node_ids(h, rts) == AssignLoop(h, Reverse(rts), <<>>, 0)

RECURSIVE CollectLoop(_, _, _)
CollectLoop(h, stk, out) ==
    IF stk = <<>> THEN out
    ELSE CollectLoop(h, Front(stk) \o h[Last(stk)].children, Append(out, Last(stk)))

_collect_nodes(h, rts) == CollectLoop(h, Reverse(rts), <<>>)

\* _render_datafusion_tree_image up to the numbering of the nodes
RenderTree ==
    /\ pcA = "parsed"
    /\ IF roots = <<>>
       THEN /\ pcA' = "render_error"
            /\ UNCHANGED <<ids, all_nodes>>
       ELSE /\ ids' = _assign_node_ids(heap, roots)
            /\ all_nodes' = _collect_nodes(heap, roots)
            /\ pcA' = "rendered"
    /\ UNCHANGED <<plan_text, heap, roots, stack, flat, restA>>

NextA == BuildTreeLine \/ BuildTreeReturn \/ RenderTree

SpecA == InitA /\ [][NextA]_vars

----------------------------------------------------------------------------
(* Parser A: what the claims speak of *)

\* The (parent, position) pairs that hold node n as a child.
ParentEdges(n) ==
    UNION {{<<p, k>> : k \in {j \in DOMAIN heap[p].children :
                                   heap[p].children[j] = n}} : p \in DOMAIN heap}

TheParent(n) == CHOOSE p \in DOMAIN heap : n \in Range(heap[p].children)

RECURSIVE ReachableFrom(_, _)
ReachableFrom(frontier, seen) ==
    IF frontier \subseteq seen THEN seen
    ELSE ReachableFrom(UNION {Range(heap[n].children) : n \in frontier},
                       seen \cup frontier)

NonBlank(s) == \E i \in DOMAIN s : s[i] # SP

LeadingSpaces(s) ==
    CHOOSE k \in 0..Len(s) :
        /\ \A i \in 1..k : s[i] = SP
        /\ k = Len(s) \/ s[k + 1] # SP

\* No line is indented more than one level below the line before it, and
\* the first line is not indented.
NoJumps ==
    \A i \in DOMAIN flat :
        heap[flat[i]].depth <= (IF i = 1 THEN 0 ELSE heap[flat[i - 1]].depth + 1)

\* A node sits more than one level below its parent: an indentation jump
\* was resolved by the fallback.
JumpAttached ==
    \E n \in DOMAIN heap :
        /\ ParentEdges(n) # {}
        /\ heap[n].depth > heap[TheParent(n)].depth + 1

RECURSIVE PreOrder(_)
RECURSIVE PreOrderAll(_)
PreOrderAll(seq) ==
    IF seq = <<>> THEN <<>> ELSE PreOrder(Head(seq)) \o PreOrderAll(Tail(seq))
PreOrder(n) == <<n>> \o PreOrderAll(heap[n].children)

\* C1: every emitted node other than a root is in the children list of
\* exactly one node (once), a root is in none, and the nodes reachable from
\* roots through children are exactly the nodes of flat, each listed once.
C1_NoOrphansNoDuplicates ==
    /\ Range(flat) = DOMAIN heap
    /\ Cardinality(Range(flat)) = Len(flat)
    /\ Cardinality(Range(roots)) = Len(roots)
    /\ \A n \in Range(flat) :
          Cardinality(ParentEdges(n)) = (IF n \in Range(roots) THEN 0 ELSE 1)
    /\ ReachableFrom(Range(roots), {}) = Range(flat)

C1_Witness ==
    /\ pcA = "parsed"
    /\ Len(roots) >= 2
    /\ Len(flat) >= 4
    /\ JumpAttached

\* C2: the node of a non-blank line has depth = leading_spaces // 2; in an
\* input without indentation jumps a node at depth d > 0 is appended to the
\* children of the nearest preceding node at depth d-1, and a node at depth 0
\* is a new root.
C2_DepthAndParent ==
    /\ (pcA # "build_error" /\ NonBlank(plan_text)) =>
          /\ flat # <<>>
          /\ heap[Last(flat)].depth = LeadingSpaces(plan_text) \div 2
    /\ \A i \in DOMAIN flat :
          heap[flat[i]].depth = 0 =>
              /\ flat[i] \in Range(roots)
              /\ \A j \in DOMAIN roots : roots[j] = flat[i] =>
                    \A k \in 1..(j - 1) : roots[k] < flat[i]
    /\ NoJumps =>
          \A i \in DOMAIN flat :
              LET n == flat[i]
                  d == heap[n].depth
                  before == {j \in 1..(i - 1) : heap[flat[j]].depth = d - 1}
                  p == flat[CHOOSE j \in before : \A k \in before : k <= j]
              IN d > 0 =>
                    /\ before # {}
                    /\ n \in Range(heap[p].children)
                    /\ \A a, b \in DOMAIN heap[p].children :
                          a < b => heap[p].children[a] < heap[p].children[b]

C2_Witness ==
    /\ pcA = "loop"
    /\ NoJumps
    /\ plan_text = Spaces(4) \o <<"a">>
    /\ heap[Last(flat)].depth = 2
    /\ heap[TheParent(Last(flat))].depth = 1
    /\ heap[TheParent(TheParent(Last(flat)))].depth = 0

\* C3: a line whose depth exceeds the number of open ancestors is attached
\* as the last child of the deepest open ancestor, and the parse does not
\* fail on it.
C3_JumpFallbackNeverFails ==
    [][(/\ pcA = "loop"
        /\ pcA' # "parsed"
        /\ NonBlank(plan_text')
        /\ LeadingSpaces(plan_text') \div 2 > Len(stack))
       => (/\ pcA' # "build_error"
           /\ Len(heap') = Len(heap) + 1
           /\ Last(heap'[Last(stack)].children) = Len(heap'))]_vars

C3_Witness ==
    /\ pcA = "build_error"
    /\ stack = <<>>
    /\ LeadingSpaces(plan_text) \div 2 = 1

\* C4: ids are 0..N-1 in pre-order, roots in order and the children of a
\* node left to right.
C4_PreOrderLeftToRight ==
    pcA = "rendered" =>
        LET P == PreOrderAll(roots)
        IN /\ DOMAIN ids = Range(P)
           /\ \A i \in DOMAIN P : ids[P[i]] = i - 1

\* A node with two children of which the first has the greater id.
C4_Witness ==
    /\ pcA = "rendered"
    /\ \E n \in DOMAIN heap :
          /\ Len(heap[n].children) = 2
          /\ ids[heap[n].children[1]] > ids[heap[n].children[2]]

----------------------------------------------------------------------------
(* Parser B: numbers.  A time is a whole number of ticks; a percentage is  *)
(* the exact fraction num/den in lowest terms.                             *)

RECURSIVE GCD(_, _)
GCD(a, b) == IF b = 0 THEN a ELSE GCD(b, a % b)

Frac(n, d) == LET g == GCD(n, d) IN [num |-> n \div g, den |-> d \div g]

Zero == Frac(0, 1)

FracLess(a, b) == a.num * b.den < b.num * a.den

Min_First(a, b) == a

\* min(cpu_time, op_timing)
Min(a, b) == IF a <= b THEN a ELSE b

\* 100.0 * (x / root_latency) if root_latency > 0 else 0.0
Percentage(x, lat) == IF lat > 0 THEN Frac(100 * x, lat) ELSE Zero

\* x or y or "UNKNOWN" on strings: the empty string is falsy
OrElse(x, y) == IF x # "" THEN x ELSE IF y # "" THEN y ELSE "UNKNOWN"

----------------------------------------------------------------------------
(* Parser B: the input profiles *)

\* A JSON value that is not an object.
NonDict == [isdict |-> FALSE]

\* The fields of a JSON object of the profile that the parser reads.  A
\* missing name is "", a missing time is 0 (the code reads both with `or`),
\* a missing latency is None.
WrapperFields(lat) ==
    [latency |-> lat, operator_name |-> "", operator_type |-> "",
     operator_timing |-> 0, cpu_time |-> 0, blocked_thread_time |-> 0]

ScanFields ==
    [latency |-> None, operator_name |-> "SCAN", operator_type |-> "",
     operator_timing |-> 4, cpu_time |-> 6, blocked_thread_time |-> 1]

JoinFields ==
    [latency |-> None, operator_name |-> "", operator_type |-> "JOIN",
     operator_timing |-> 2, cpu_time |-> 1, blocked_thread_time |-> 2]

NodeFields ==
    {WrapperFields(None), WrapperFields(Some(4)), WrapperFields(Some(0)),
     ScanFields, JoinFields}

Dict(f, kids) ==
    [isdict |-> TRUE, latency |-> f.latency,
     operator_name |-> f.operator_name, operator_type |-> f.operator_type,
     operator_timing |-> f.operator_timing, cpu_time |-> f.cpu_time,
     blocked_thread_time |-> f.blocked_thread_time, children |-> kids]

RECURSIVE TreesOfSize(_)
RECURSIVE ForestsOfSize(_)
TreesOfSize(n) ==
    (IF n = 1 THEN {NonDict} ELSE {})
        \cup {Dict(f, kids) : f \in NodeFields, kids \in ForestsOfSize(n - 1)}
ForestsOfSize(m) ==
    IF m = 0 THEN {<<>>}
    ELSE UNION {{<<t>> \o f : t \in TreesOfSize(k), f \in ForestsOfSize(m - k)} :
                    k \in 1..m}

\* Larger profiles: wrappers between operators, several promoted children,
\* a non-dict child behind the latency, a latency of 0.
SampleProfiles ==
    { Dict(WrapperFields(Some(4)),
           <<Dict(ScanFields,
                  <<Dict(WrapperFields(None),
                         <<Dict(JoinFields, <<>>), Dict(ScanFields, <<>>)>>)>>)>>),
      Dict(WrapperFields(Some(4)),
           <<NonDict,
             Dict(JoinFields,
                  <<Dict(WrapperFields(None), <<Dict(ScanFields, <<>>)>>),
                    Dict(ScanFields, <<>>)>>)>>),
      Dict(JoinFields,
           <<Dict(WrapperFields(None),
                  <<Dict(ScanFields, <<>>), Dict(JoinFields, <<>>)>>),
             Dict(WrapperFields(Some(0)), <<Dict(ScanFields, <<>>)>>)>>) }

\* profile is a dict (the docstring); below it any JSON value may appear.
Profiles ==
    UNION {TreesOfSize(n) \ {NonDict} : n \in 1..MaxProfile} \cup SampleProfiles

----------------------------------------------------------------------------
(* Parser B: get_execution_time_breakdown *)

Returned(v) == [raised |-> FALSE, value |-> v]

Raised == [raised |-> TRUE, value |-> None]

RECURSIVE find_latency(_)
RECURSIVE FindLatencyIn(_)
RECURSIVE FindLatencyIn_Truthy(_)
FindLatencyIn_Truthy(kids) ==
    IF kids = <<>> THEN Returned(None)
    ELSE LET v == find_latency(Head(kids))
         IN IF v.raised \/ (v.value # None /\ v.value # Some(0)) THEN v
            ELSE FindLatencyIn_Truthy(Tail(kids))

\* for ch in (node.get('children') or []): first non-None result
FindLatencyIn(kids) ==
    IF kids = <<>> THEN Returned(None)
    ELSE LET v == find_latency(Head(kids))
         IN IF v.raised \/ v.value # None THEN v ELSE FindLatencyIn(Tail(kids))
find_latency(node) ==
    IF node.isdict /\ node.latency # None THEN Returned(node.latency)
    ELSE IF ~node.isdict THEN Raised   \* node.get of a non-dict: AttributeError
    ELSE FindLatencyIn(node.children)

is_operator(n) == n.isdict /\ (n.operator_name # "" \/ n.operator_type # "")

\* The entry of walk_collect and of op_entry (the pass-through row and byte
\* counters are left out).
Entry(n, lat) ==
    [name |-> OrElse(n.operator_name, n.operator_type),
     type |-> OrElse(n.operator_type, n.operator_name),
     timing |-> n.operator_timing,
     cpu_time |-> n.cpu_time,
     blocked_time |-> n.blocked_thread_time,
     overall_percentage |-> Percentage(n.operator_timing, lat),
     processing_percentage |-> Percentage(Min(n.cpu_time, n.operator_timing), lat),
     synchronization_percentage |-> Percentage(n.blocked_thread_time, lat)]

RECURSIVE walk_collect(_, _, _)
RECURSIVE WalkCollectIn(_, _, _)
WalkCollectIn(kids, lat, bd) ==
    IF kids = <<>> THEN bd
    ELSE WalkCollectIn(Tail(kids), lat, walk_collect(Head(kids), lat, bd))

walk_collect_StopsAtOperator(node, lat, bd) ==
    IF ~node.isdict THEN bd
    ELSE IF is_operator(node)
         THEN [bd EXCEPT
                 !.operators = Append(@, Entry(node, lat)),
                 !.processing = @ + Min(node.cpu_time, node.operator_timing),
                 !.synchronization = @ + node.blocked_thread_time]
         ELSE WalkCollectIn(node.children, lat, bd)

walk_collect(node, lat, bd) ==
    IF ~node.isdict THEN bd
    ELSE LET bd1 ==
                 IF is_operator(node)
                 THEN [bd EXCEPT
                         !.operators = Append(@, Entry(node, lat)),
                         !.processing = @ + Min(node.cpu_time, node.operator_timing),
                         !.synchronization = @ + node.blocked_thread_time]
                 ELSE bd
         IN WalkCollectIn(node.children, lat, bd1)

\* list.sort(key=overall_percentage, reverse=True): stable, descending
RECURSIVE InsertSorted(_, _)
InsertSorted(sorted, e) ==
    IF sorted = <<>> THEN <<e>>
    ELSE IF FracLess(Last(sorted).overall_percentage, e.overall_percentage)
         THEN Append(InsertSorted(Front(sorted), e), Last(sorted))
         ELSE Append(sorted, e)

RECURSIVE SortOperators(_)
SortOperators(ops) ==
    IF ops = <<>> THEN <<>> ELSE InsertSorted(SortOperators(Front(ops)), Last(ops))

op_entry(n, lat) == [c \in {"children"} |-> <<>>] @@ Entry(n, lat)

RECURSIVE build_operator_subtree(_, _)
RECURSIVE BuildChildOps(_, _)
\* child_ops: a list result is extended, a dict result is appended
BuildChildOps(kids, lat) ==
    IF kids = <<>> THEN <<>>
    ELSE LET sub == build_operator_subtree(Head(kids), lat)
         IN (IF sub.isdict THEN <<sub.value>> ELSE sub.value)
                \o BuildChildOps(Tail(kids), lat)

build_operator_subtree_DropPromoted(node, lat) ==
    IF ~node.isdict THEN [isdict |-> FALSE, value |-> <<>>]
    ELSE IF is_operator(node)
         THEN [isdict |-> TRUE,
               value |-> [op_entry(node, lat) EXCEPT
                            !.children = BuildChildOps(node.children, lat)]]
         ELSE [isdict |-> FALSE, value |-> <<>>]

\* The result is a dict (an operator entry) or a list of entries.
build_operator_subtree(node, lat) ==
    IF ~node.isdict THEN [isdict |-> FALSE, value |-> <<>>]
    ELSE IF is_operator(node)
         THEN [isdict |-> TRUE,
               value |-> [op_entry(node, lat) EXCEPT
                            !.children = BuildChildOps(node.children, lat)]]
         ELSE [isdict |-> FALSE, value |-> BuildChildOps(node.children, lat)]

\* n.get(key): None when the dict has no such key
Get(n, key) == IF key \in DOMAIN n THEN n[key] ELSE None

FlatNode(n, nid, parent_id, depth) ==
    [id |-> nid, parent_id |-> parent_id, depth |-> depth,
     name |-> Get(n, "name"), type |-> Get(n, "type"), timing |-> Get(n, "timing"),
     overall_percentage |-> Get(n, "overall_percentage"),
     processing_percentage |-> Get(n, "processing_percentage"),
     synchronization_percentage |-> Get(n, "synchronization_percentage")]

RECURSIVE assign_ids(_, _, _, _)
RECURSIVE AssignChildren(_, _, _, _)

AssignChildren_SameDepth(kids, nid, depth, st) ==
    IF kids = <<>> THEN st
    ELSE LET r == assign_ids(Head(kids), Some(nid), depth, st)
         IN AssignChildren(Tail(kids), nid, depth,
                [r.st EXCEPT !.edges = Append(@, [parent |-> nid, child |-> r.nid])])

AssignChildren_EdgeToCounter(kids, nid, depth, st) ==
    IF kids = <<>> THEN st
    ELSE LET r == assign_ids(Head(kids), Some(nid), depth + 1, st)
         IN AssignChildren(Tail(kids), nid, depth,
                [r.st EXCEPT !.edges = Append(@, [parent |-> nid, child |-> r.st.counter])])

\* for ch in n.get("children", []): cid = assign_ids(ch, nid, depth+1);
\* edges.append({"parent": nid, "child": cid})
AssignChildren(kids, nid, depth, st) ==
    IF kids = <<>> THEN st
    ELSE LET r == assign_ids(Head(kids), Some(nid), depth + 1, st)
         IN AssignChildren(Tail(kids), nid, depth,
                [r.st EXCEPT !.edges = Append(@, [parent |-> nid, child |-> r.nid])])

\* st is (nodes, edges, counter["id"]); the result is the new st and nid
assign_ids(n, parent_id, depth, st) ==
    LET nid == st.counter
        st1 == [st EXCEPT !.counter = @ + 1,
                          !.nodes = Append(@, FlatNode(n, nid, parent_id, depth))]
    IN [st |-> AssignChildren(n.children, nid, depth, st1), nid |-> nid]

InitB ==
    /\ profile \in Profiles
    /\ pcB = "start"
    /\ root_latency = 0
    /\ breakdown = <<>>
    /\ query_root = <<>>
    /\ nodes = <<>>
    /\ edges = <<>>
    /\ plan_text = <<>>
    /\ heap = <<>>
    /\ roots = <<>>
    /\ stack = <<>>
    /\ flat = <<>>
    /\ pcA = "idle"
    /\ ids = <<>>
    /\ all_nodes = <<>>
    /\ IdleN
    /\ IdleT
    /\ IdleC
    /\ IdleD
    /\ IdleG
    /\ IdleR

\* root_latency = float(find_latency(profile_data) or 0.0)
FindLatency ==
    /\ pcB = "start"
    /\ LET r == find_latency(profile)
       IN IF r.raised
          THEN /\ pcB' = "error"
               /\ UNCHANGED root_latency
          ELSE /\ root_latency' = (IF r.value = None THEN 0 ELSE r.value[1])
               /\ pcB' = "collect"
    /\ UNCHANGED <<profile, breakdown, query_root, nodes, edges, restB>>

\* walk_collect(profile_data), the aggregate percentages and the sort
WalkCollect ==
    /\ pcB = "collect"
    /\ LET bd == walk_collect(profile, root_latency,
                     [overall_time |-> root_latency, processing |-> 0,
                      synchronization |-> 0, operators |-> <<>>])
       IN breakdown' =
            [overall_time |-> bd.overall_time,
             processing |-> bd.processing,
             synchronization |-> bd.synchronization,
             operators |-> SortOperators(bd.operators),
             processing_percentage |-> Percentage(bd.processing, root_latency),
             synchronization_percentage |-> Percentage(bd.synchronization, root_latency)]
    /\ pcB' = "build"
    /\ UNCHANGED <<profile, root_latency, query_root, nodes, edges, restB>>

\* op_forest = build_operator_subtree(profile_data) and query_root
BuildOperatorTree ==
    /\ pcB = "build"
    /\ LET op_forest == build_operator_subtree(profile, root_latency)
           op_children == IF op_forest.isdict THEN <<op_forest.value>>
                          ELSE op_forest.value
       IN query_root' =
            [name |-> "QUERY", type |-> "ROOT", timing |-> root_latency,
             overall_percentage |-> IF root_latency > 0 THEN Frac(100, 1) ELSE Zero,
             children |-> op_children]
    /\ pcB' = "assign"
    /\ UNCHANGED <<profile, root_latency, breakdown, nodes, edges, restB>>

\* assign_ids(query_root) and the return
AssignIds ==
    /\ pcB = "assign"
    /\ LET r == assign_ids(query_root, None, 0,
                           [nodes |-> <<>>, edges |-> <<>>, counter |-> 0])
       IN /\ nodes' = r.st.nodes
          /\ edges' = r.st.edges
    /\ pcB' = "done"
    /\ UNCHANGED <<profile, root_latency, breakdown, query_root, restB>>

NextB == FindLatency \/ WalkCollect \/ BuildOperatorTree \/ AssignIds

SpecB == InitB /\ [][NextB]_vars

----------------------------------------------------------------------------
(* Parser B: what the claims speak of.  A node is named by its path, the   *)
(* sequence of child positions that leads to it from the top.              *)

RECURSIVE InPaths(_)
InPaths(n) ==
    {<<>>} \cup
    (IF n.isdict
     THEN UNION {{<<i>> \o q : q \in InPaths(n.children[i])} : i \in DOMAIN n.children}
     ELSE {})

RECURSIVE OutPaths(_)
OutPaths(n) ==
    {<<>>} \cup
    UNION {{<<i>> \o q : q \in OutPaths(n.children[i])} : i \in DOMAIN n.children}

RECURSIVE At(_, _)
At(n, q) == IF q = <<>> THEN n ELSE At(n.children[Head(q)], Tail(q))

IsProperPrefix(a, b) == Len(a) < Len(b) /\ SubSeq(b, 1, Len(a)) = a

\* a comes before b in pre-order, children left to right
PathBefore(a, b) ==
    \/ IsProperPrefix(a, b)
    \/ \E i \in 1..Len(a) :
          /\ i <= Len(b)
          /\ SubSeq(a, 1, i - 1) = SubSeq(b, 1, i - 1)
          /\ a[i] < b[i]

Rank(S, q) == Cardinality({r \in S : PathBefore(r, q)})

InPreOrder(S) == [i \in 1..Cardinality(S) |-> CHOOSE q \in S : Rank(S, q) = i - 1]

\* The operator nodes of the input profile.
OpPaths ==
    {q \in InPaths(profile) :
        LET n == At(profile, q)
        IN n.isdict /\ (n.operator_name # "" \/ n.operator_type # "")}

MinTime(n) == IF n.cpu_time < n.operator_timing THEN n.cpu_time ELSE n.operator_timing

RECURSIVE SumProcessing(_)
SumProcessing(S) ==
    IF S = {} THEN 0
    ELSE LET q == CHOOSE x \in S : TRUE
         IN MinTime(At(profile, q)) + SumProcessing(S \ {q})

RECURSIVE SumBlocked(_)
SumBlocked(S) ==
    IF S = {} THEN 0
    ELSE LET q == CHOOSE x \in S : TRUE
         IN At(profile, q).blocked_thread_time + SumBlocked(S \ {q})

\* The entry e reports the input node n.
Reports(e, n) ==
    /\ e.name = (IF n.operator_name # "" THEN n.operator_name ELSE n.operator_type)
    /\ e.type = (IF n.operator_type # "" THEN n.operator_type ELSE n.operator_name)
    /\ e.timing = n.operator_timing
    /\ e.cpu_time = n.cpu_time
    /\ e.blocked_time = n.blocked_thread_time

\* What an entry reports of an input node.
Signature(n) ==
    <<n.operator_name, n.operator_type, n.operator_timing, n.cpu_time,
      n.blocked_thread_time>>

\* The fraction f is 100 * x / lat.
IsShare(f, x, lat) == f.den > 0 /\ f.num * lat = 100 * x * f.den

\* The operators promoted to q: the operator descendants of q with no
\* operator between; Tops are those with no operator above them at all.
Promoted(q) ==
    {d \in OpPaths :
        /\ IsProperPrefix(q, d)
        /\ ~\E r \in OpPaths : IsProperPrefix(q, r) /\ IsProperPrefix(r, d)}

Tops == {d \in OpPaths : ~\E r \in OpPaths : IsProperPrefix(r, d)}

RECURSIVE ExpectedNode(_)
ExpectedNode(q) ==
    LET n == At(profile, q)
        kids == InPreOrder(Promoted(q))
    IN [name |-> IF n.operator_name # "" THEN n.operator_name ELSE n.operator_type,
        timing |-> n.operator_timing,
        children |-> [i \in DOMAIN kids |-> ExpectedNode(kids[i])]]

RECURSIVE Shape(_)
Shape(e) ==
    [name |-> e.name, timing |-> e.timing,
     children |-> [i \in DOMAIN e.children |-> Shape(e.children[i])]]

NodeWithId(i) == CHOOSE nd \in Range(nodes) : nd.id = i

\* C5: the QUERY root gets id 0, parent_id null and depth 0; the ids are
\* 0..N-1 in pre-order with children left to right; every other node's
\* parent_id is its parent's id and its depth its parent's depth + 1.
C5_AssignIdsPreOrder ==
    pcB = "done" =>
        LET S == OutPaths(query_root)
        IN /\ Len(nodes) = Cardinality(S)
           /\ {nodes[i].id : i \in DOMAIN nodes} = 0..(Cardinality(S) - 1)
           /\ \A q \in S :
                LET nd == NodeWithId(Rank(S, q))
                IN /\ nd.name = At(query_root, q).name
                   /\ nd.timing = At(query_root, q).timing
                   /\ IF q = <<>>
                      THEN /\ nd.id = 0
                           /\ nd.name = "QUERY"
                           /\ nd.parent_id = None
                           /\ nd.depth = 0
                      ELSE /\ nd.parent_id = Some(Rank(S, Front(q)))
                           /\ nd.depth = NodeWithId(Rank(S, Front(q))).depth + 1

C5_Witness ==
    /\ pcB = "done"
    /\ \E nd \in Range(nodes) : nd.depth = 2 /\ nd.parent_id # Some(0)
    /\ \E a, b \in Range(nodes) :
          /\ a.parent_id = b.parent_id
          /\ a.id < b.id
          /\ a.name = "JOIN"
          /\ b.name = "SCAN"

\* C6: every node of nodes except exactly one, the synthetic root, is the
\* child of exactly one edge; the root is the child of none; the parent and
\* the child of every edge are ids of nodes.
C6_NoOrphanInFlatGraph ==
    pcB = "done" =>
        LET Ids == {nodes[i].id : i \in DOMAIN nodes}
            AsChild(i) == {k \in DOMAIN edges : edges[k].child = i}
        IN /\ Cardinality(Ids) = Len(nodes)
           /\ \A nd \in Range(nodes) :
                Cardinality(AsChild(nd.id)) = (IF nd.type = "ROOT" THEN 0 ELSE 1)
           /\ Cardinality({nd \in Range(nodes) : AsChild(nd.id) = {}}) = 1
           /\ \A k \in DOMAIN edges : edges[k].parent \in Ids /\ edges[k].child \in Ids

C6_Witness ==
    /\ pcB = "done"
    /\ Len(edges) = 3
    /\ \E k \in DOMAIN edges : edges[k].parent # 0

\* C7: a node with neither an operator name nor an operator type is not
\* emitted; its operator descendants are promoted, in their original order,
\* to the nearest enclosing operator, or to the QUERY root when there is none.
C7_WrappersSkippedChildrenPromoted ==
    pcB \in {"assign", "done"} =>
        LET tops == InPreOrder(Tops)
        IN /\ Shape(query_root).children = [i \in DOMAIN tops |-> ExpectedNode(tops[i])]
           /\ Cardinality(OutPaths(query_root)) = Cardinality(OpPaths) + 1

C7_Witness ==
    /\ pcB = "done"
    /\ \E q \in OpPaths :
          /\ Cardinality(Promoted(q)) = 2
          /\ \A d \in Promoted(q) : Len(d) = Len(q) + 2
          /\ \E d, e \in Promoted(q) :
                At(profile, d).operator_name # At(profile, e).operator_name
    /\ Len(query_root.children) = 1
    /\ Len(query_root.children[1].children) = 2

\* C8: for every operator node processing time is min(cpu_time,
\* operator_timing), synchronization time is blocked_thread_time, and each
\* percentage is 100 * component / root latency (root latency positive); an
\* operator with operator_timing 2.0 s, cpu_time 3.0 s, blocked 0.5 s under a
\* root latency of 2.0 s (4, 6, 1 and 4 ticks) has processing_percentage 100
\* and synchronization_percentage 25.
C8_OperatorShares ==
    (pcB = "done" /\ root_latency > 0) =>
        LET Shares(e) ==
                /\ IsShare(e.overall_percentage, e.timing, root_latency)
                /\ IsShare(e.processing_percentage,
                           IF e.cpu_time < e.timing THEN e.cpu_time ELSE e.timing,
                           root_latency)
                /\ IsShare(e.synchronization_percentage, e.blocked_time, root_latency)
                /\ (e.timing = 4 /\ e.cpu_time = 6 /\ e.blocked_time = 1
                        /\ root_latency = 4) =>
                      /\ e.processing_percentage = [num |-> 100, den |-> 1]
                      /\ e.synchronization_percentage = [num |-> 25, den |-> 1]
        IN /\ \A q \in OpPaths :
                /\ \E e \in Range(breakdown.operators) : Reports(e, At(profile, q))
                /\ \E o \in OutPaths(query_root) :
                      o # <<>> /\ Reports(At(query_root, o), At(profile, q))
           /\ \A e \in Range(breakdown.operators) : Shares(e)
           /\ \A o \in OutPaths(query_root) : o # <<>> => Shares(At(query_root, o))
           /\ \A q \in OpPaths : OpPaths = {q} =>
                /\ breakdown.processing = MinTime(At(profile, q))
                /\ breakdown.synchronization = At(profile, q).blocked_thread_time

C8_Witness ==
    /\ pcB = "done"
    /\ root_latency = 4
    /\ \E q \in OpPaths : OpPaths = {q} /\ At(profile, q).cpu_time = 6
    /\ breakdown.processing = 4
    /\ breakdown.synchronization = 1
    /\ breakdown.operators[1].processing_percentage = [num |-> 100, den |-> 1]
    /\ breakdown.operators[1].synchronization_percentage = [num |-> 25, den |-> 1]

\* The latency fields of the profile, and whether the one found first in
\* pre-order is 0 or there is none.
LatencyPaths ==
    {q \in InPaths(profile) : At(profile, q).isdict /\ At(profile, q).latency # None}

LatencyZeroOrMissing ==
    \/ LatencyPaths = {}
    \/ At(profile, InPreOrder(LatencyPaths)[1]).latency = Some(0)

AllPercentagesZero ==
    /\ breakdown.processing_percentage = [num |-> 0, den |-> 1]
    /\ breakdown.synchronization_percentage = [num |-> 0, den |-> 1]
    /\ \A e \in Range(breakdown.operators) :
          /\ e.overall_percentage = [num |-> 0, den |-> 1]
          /\ e.processing_percentage = [num |-> 0, den |-> 1]
          /\ e.synchronization_percentage = [num |-> 0, den |-> 1]
    /\ \A nd \in Range(nodes) :
          /\ nd.overall_percentage = [num |-> 0, den |-> 1]
          /\ nd.type # "ROOT" =>
                /\ nd.processing_percentage = [num |-> 0, den |-> 1]
                /\ nd.synchronization_percentage = [num |-> 0, den |-> 1]
    /\ query_root.overall_percentage = [num |-> 0, den |-> 1]

\* C9: when the root latency is 0 or no latency is found, every aggregate
\* and per-operator percentage and the root's overall_percentage are 0, and
\* no error is raised.
C9_ZeroLatencyAllZeroNoError ==
    LatencyZeroOrMissing =>
        /\ pcB # "error"
        /\ pcB = "done" => AllPercentagesZero

C9_Witness ==
    /\ pcB = "error"
    /\ LatencyPaths = {}
    /\ \E q \in InPaths(profile) : ~At(profile, q).isdict

\* C10: processing is the sum of min(cpu_time, operator_timing) over the
\* operator nodes of the input, synchronization the sum of their
\* blocked_thread_time, and each operator is counted exactly once.
C10_TotalsSumOverOperators ==
    pcB \in {"build", "assign", "done"} =>
        /\ breakdown.processing = SumProcessing(OpPaths)
        /\ breakdown.synchronization = SumBlocked(OpPaths)
        /\ Len(breakdown.operators) = Cardinality(OpPaths)
        /\ \A q \in OpPaths :
              Cardinality({i \in DOMAIN breakdown.operators :
                              Reports(breakdown.operators[i], At(profile, q))})
                = Cardinality({r \in OpPaths : Signature(At(profile, r))
                                                    = Signature(At(profile, q))})

C10_Witness ==
    /\ pcB = "done"
    /\ \E q, d \in OpPaths : IsProperPrefix(q, d)
    /\ Cardinality(OpPaths) = 3
    /\ breakdown.processing = 9
    /\ breakdown.synchronization = 4

\* The latency the synthetic root is to carry: that of the first node in
\* pre-order with a latency field, 0 when there is none.
FirstLatency ==
    IF LatencyPaths = {} THEN 0
    ELSE At(profile, InPreOrder(LatencyPaths)[1]).latency[1]

\* C11: the overall_time and the synthetic root's timing are the latency of
\* the first node, in pre-order depth-first order of the input tree, that
\* carries a non-null latency field, and 0 when no node carries one.
C11_RootLatencyIsFirstInPreOrder ==
    /\ pcB \in {"collect", "build", "assign", "done"} => root_latency = FirstLatency
    /\ pcB \in {"build", "assign", "done"} => breakdown.overall_time = FirstLatency
    /\ pcB \in {"assign", "done"} => query_root.timing = FirstLatency
    /\ pcB = "done" => nodes[1].timing = FirstLatency

C11_Witness ==
    /\ pcB = "done"
    /\ \E q, r \in LatencyPaths :
          /\ q # <<>>
          /\ q = InPreOrder(LatencyPaths)[1]
          /\ At(profile, q).latency = Some(0)
          /\ At(profile, r).latency = Some(4)
    /\ breakdown.overall_time = 0
    /\ query_root.timing = 0

----------------------------------------------------------------------------
(* Unit normalizer: Python values.  A str is the sequence of its           *)
(* characters.  A finite number is the exact decimal                       *)
(* (-1)^neg * digits * 10^-scale, digits being a sequence of decimal       *)
(* digits of any length; binary rounding of floats is not represented, and *)
(* -0.0 is 0.0 (they are == in Python).                                    *)

MicroSign == "<U+00B5>"

GreekMu == "<U+03BC>"

PyNone == [kind |-> "none"]

PyStr(cs) == [kind |-> "str", chars |-> cs]

RECURSIVE StripLeadingZeros(_)
StripLeadingZeros(ds) ==
    IF ds # <<>> /\ Head(ds) = 0 THEN StripLeadingZeros(Tail(ds)) ELSE ds

RECURSIVE DropFractionZeros(_, _)
DropFractionZeros(ds, scale) ==
    IF scale > 0 /\ ds # <<>> /\ Last(ds) = 0
    THEN DropFractionZeros(Front(ds), scale - 1)
    ELSE [digits |-> ds, scale |-> scale]

\* The int or float with the value (-1)^neg * ds * 10^-scale.
Finite(kind, neg, ds, scale) ==
    LET r == DropFractionZeros(ds, scale)
        d == StripLeadingZeros(r.digits)
    IN [kind |-> kind, cls |-> "finite", neg |-> neg /\ d # <<>>,
        digits |-> d, scale |-> IF d = <<>> THEN 0 ELSE r.scale]

Inf(neg) == [kind |-> "float", cls |-> "inf", neg |-> neg, digits |-> <<>>, scale |-> 0]

NaN == [kind |-> "float", cls |-> "nan", neg |-> FALSE, digits |-> <<>>, scale |-> 0]

\* {"_value": sec, "_unit": "s", "_raw": raw}
Duration(sec, raw) == [kind |-> "dict", _value |-> sec, _unit |-> "s", _raw |-> raw]

Ok(v) == [exc |-> "", value |-> v]

Raise(e) == [exc |-> e, value |-> PyNone]

----------------------------------------------------------------------------
(* Unit normalizer: str methods, float() and int() *)

DigitChars == <<"0", "1", "2", "3", "4", "5", "6", "7", "8", "9">>

IsDigit(c) == \E i \in DOMAIN DigitChars : DigitChars[i] = c

DigitOf(c) == (CHOOSE i \in DOMAIN DigitChars : DigitChars[i] = c) - 1

\* s.strip()
strip(s) == lstrip(rstrip(s))

\* s.endswith(suf)
endswith(s, suf) ==
    Len(s) >= Len(suf) /\ SubSeq(s, Len(s) - Len(suf) + 1, Len(s)) = suf

\* s[:-k]
DropLast(s, k) == IF Len(s) <= k THEN <<>> ELSE SubSeq(s, 1, Len(s) - k)

\* s.replace("μs", "µs")
RECURSIVE ReplaceMu(_)
ReplaceMu(s) ==
    IF s = <<>> THEN <<>>
    ELSE IF Len(s) >= 2 /\ s[1] = GreekMu /\ s[2] = "s"
         THEN <<MicroSign, "s">> \o ReplaceMu(SubSeq(s, 3, Len(s)))
         ELSE <<Head(s)>> \o ReplaceMu(Tail(s))

HasSign(s) == s # <<>> /\ Head(s) \in {"+", "-"}

Unsigned(s) == IF HasSign(s) THEN Tail(s) ELSE s

AllDigits(s) == s # <<>> /\ \A i \in DOMAIN s : IsDigit(s[i])

\* digits with at most one point and at least one digit: 12, 1.5, 5., .5
IsDecimal(s) ==
    /\ \A i \in DOMAIN s : IsDigit(s[i]) \/ s[i] = "."
    /\ Cardinality({i \in DOMAIN s : s[i] = "."}) <= 1
    /\ \E i \in DOMAIN s : IsDigit(s[i])

RECURSIVE DigitsIn(_)
DigitsIn(s) ==
    IF s = <<>> THEN <<>>
    ELSE (IF IsDigit(Head(s)) THEN <<DigitOf(Head(s))>> ELSE <<>>) \o DigitsIn(Tail(s))

FractionLen(s) ==
    IF \E i \in DOMAIN s : s[i] = "."
    THEN Len(s) - (CHOOSE i \in DOMAIN s : s[i] = ".")
    ELSE 0

\* float(s) of a str: blanks around it, a sign, then a decimal, inf,
\* infinity or nan.  (Exponents and digit separators are left out; the
\* input alphabet has neither "e" nor "_".)
float(s) ==
    LET t == strip(s)
        neg == t # <<>> /\ Head(t) = "-"
        u == Unsigned(t)
    IN IF u \in {<<"i", "n", "f">>, <<"i", "n", "f", "i", "n", "i", "t", "y">>}
       THEN Ok(Inf(neg))
       ELSE IF u = <<"n", "a", "n">> THEN Ok(NaN)
       ELSE IF IsDecimal(u) THEN Ok(Finite("float", neg, DigitsIn(u), FractionLen(u)))
       ELSE Raise("ValueError")

\* int(s) of a str: blanks around it, a sign, then digits
int(s) ==
    LET t == strip(s)
    IN IF AllDigits(Unsigned(t))
       THEN Ok(Finite("int", HasSign(t) /\ Head(t) = "-", DigitsIn(Unsigned(t)), 0))
       ELSE Raise("ValueError")

\* int(x) of a float: truncation towards zero
IntOfFloat(x) ==
    IF x.cls = "inf" THEN Raise("OverflowError")
    ELSE IF x.cls = "nan" THEN Raise("ValueError")
    ELSE Ok(Finite("int", x.neg, DropLast(x.digits, x.scale), 0))

\* x / 10^k of a float
DivPow10(x, k) ==
    IF x.cls = "finite" THEN Finite("float", x.neg, x.digits, x.scale + k) ELSE x

----------------------------------------------------------------------------
(* Unit normalizer: _to_seconds, _to_bytes, _parse_metric_value,           *)
(* _normalize_metrics                                                      *)

SubSecondSuffixes ==
    {<<"m", "s">>, <<MicroSign, "s">>, <<"u", "s">>, <<"n", "s">>}

\* float(text) / 10^k, None on ValueError
SecondsOf(text, k) ==
    LET f == float(text)
    IN IF f.exc # "" THEN PyNone ELSE DivPow10(f.value, k)

_to_seconds_NsAsUs(text) ==
    LET s == ReplaceMu(strip(text))
    IN IF endswith(s, <<"s">>) /\ ~\E suf \in SubSecondSuffixes : endswith(s, suf)
       THEN SecondsOf(DropLast(s, 1), 0)
       ELSE IF endswith(s, <<"m", "s">>) THEN SecondsOf(DropLast(s, 2), 3)
       ELSE IF endswith(s, <<MicroSign, "s">>) \/ endswith(s, <<"u", "s">>)
            THEN SecondsOf(DropLast(s, 2), 6)
       ELSE IF endswith(s, <<"n", "s">>) THEN SecondsOf(DropLast(s, 2), 6)
       ELSE SecondsOf(s, 0)

_to_seconds(text) ==
    LET s == ReplaceMu(strip(text))
    IN IF endswith(s, <<"s">>) /\ ~\E suf \in SubSecondSuffixes : endswith(s, suf)
       THEN SecondsOf(DropLast(s, 1), 0)
       ELSE IF endswith(s, <<"m", "s">>) THEN SecondsOf(DropLast(s, 2), 3)
       ELSE IF endswith(s, <<MicroSign, "s">>) \/ endswith(s, <<"u", "s">>)
            THEN SecondsOf(DropLast(s, 2), 6)
       ELSE IF endswith(s, <<"n", "s">>) THEN SecondsOf(DropLast(s, 2), 9)
       ELSE SecondsOf(s, 0)

\* Only ValueError is caught; what else int(float(num)) raises goes on.
_to_bytes(text) ==
    LET s == strip(text)
    IN IF endswith(s, <<" ", "B">>)
       THEN LET f == float(strip(DropLast(s, 2)))
            IN IF f.exc # "" THEN Ok(PyNone)
               ELSE LET i == IntOfFloat(f.value)
                    IN IF i.exc = "ValueError" THEN Ok(PyNone) ELSE i
       ELSE LET i == int(s)
            IN IF i.exc # "" THEN Ok(PyNone) ELSE i

\* re.fullmatch(r"[+-]?\d+", raw)
MatchesInt(raw) == AllDigits(Unsigned(raw))

\* re.fullmatch(r"[+-]?\d+\.\d+", raw)
MatchesFloat(raw) ==
    LET u == Unsigned(raw)
    IN \E i \in DOMAIN u :
          /\ u[i] = "."
          /\ AllDigits(SubSeq(u, 1, i - 1))
          /\ AllDigits(SubSeq(u, i + 1, Len(u)))

\* v is any Python value; v.strip() exists on a str only.
_parse_metric_value(v) ==
    IF v.kind # "str" THEN Raise("AttributeError")
    ELSE LET raw == strip(v.chars)
             b == _to_bytes(raw)
             sec == _to_seconds(raw)
         IN IF b.exc # "" THEN b
            ELSE IF b.value # PyNone THEN b
            ELSE IF sec # PyNone /\ endswith(raw, <<"s">>) THEN Ok(Duration(sec, raw))
            ELSE IF MatchesInt(raw) /\ int(raw).exc = "" THEN int(raw)
            ELSE IF MatchesFloat(raw) /\ float(raw).exc = "" THEN float(raw)
            ELSE Ok(PyStr(raw))

\* A dict is the sequence of its items in insertion order.
Item(k, v) == [key |-> k, val |-> v]

\* d[k] = v
DictSet(d, k, v) ==
    IF \E i \in DOMAIN d : d[i].key = k
    THEN [i \in DOMAIN d |-> IF d[i].key = k THEN Item(k, v) ELSE d[i]]
    ELSE Append(d, Item(k, v))

IsDuration(v) == v.kind = "dict" /\ v._unit = "s"

RECURSIVE NormalizeItems(_, _)
NormalizeItems(items, out) ==
    IF items = <<>> THEN out
    ELSE LET k == Head(items).key
             v == Head(items).val
         IN NormalizeItems(Tail(items),
                IF IsDuration(v)
                THEN DictSet(DictSet(out, k \o <<"_", "s">>, v._value), k, PyStr(v._raw))
                ELSE DictSet(out, k, v))

_normalize_metrics(d) == NormalizeItems(d, <<>>)

----------------------------------------------------------------------------
(* Unit normalizer: the values it is applied to *)

MaxLen == 3

Alphabet == {"0", "1", ".", "-", " ", "B", "s", "m", "n", GreekMu}

RECURSIVE StringsOfLen(_)
StringsOfLen(n) ==
    IF n = 0 THEN {<<>>}
    ELSE {<<c>> \o s : c \in Alphabet, s \in StringsOfLen(n - 1)}

ShortStrings == UNION {StringsOfLen(n) : n \in 0..MaxLen}

NumberTexts ==
    { <<"1", "5", "0", "0">>,
      <<"2", "5", "0", "0", "0", "0", "0">>,
      <<"1", "0">>,
      <<"5", "4", "0", "7", "3", "1", "2", "5", "0", "5", "5">>,
      <<"i", "n", "f">>,
      <<"-", "i", "n", "f">>,
      <<"n", "a", "n">>,
      <<"i", "n", "f", "i", "n", "i", "t", "y">>,
      <<"1", ".", "9">>,
      <<"-", "1", ".", "5">>,
      <<"+", "5">>,
      <<"5", ".">>,
      <<".", "5">>,
      <<"0">>,
      <<"-", "0">>,
      <<"1", ".", "5", "0">>,
      <<"x">>,
      <<>> }

SuffixTexts ==
    { <<>>, <<"s">>, <<"m", "s">>, <<"u", "s">>, <<MicroSign, "s">>, <<GreekMu, "s">>, <<"n", "s">>, <<"B">> }

Blanks == {<<>>, <<" ">>}

\* blanks, a number text, a blank or none, a unit, blanks
MetricTexts ==
    {a \o num \o b \o suf \o c :
        a \in Blanks, num \in NumberTexts, b \in Blanks, suf \in SuffixTexts,
        c \in Blanks}

ValueStrings == ShortStrings \cup MetricTexts

\* key of the one metric of the line
MetricKey == <<"t">>

InitN ==
    /\ value \in ValueStrings
    /\ parsed = <<>>
    /\ metrics = <<>>
    /\ metrics_again = <<>>
    /\ reparsed = <<>>
    /\ pcN = "start"
    /\ plan_text = <<>>
    /\ heap = <<>>
    /\ roots = <<>>
    /\ stack = <<>>
    /\ flat = <<>>
    /\ pcA = "idle"
    /\ ids = <<>>
    /\ all_nodes = <<>>
    /\ profile = <<>>
    /\ pcB = "idle"
    /\ root_latency = 0
    /\ breakdown = <<>>
    /\ query_root = <<>>
    /\ nodes = <<>>
    /\ edges = <<>>
    /\ IdleT
    /\ IdleC
    /\ IdleD
    /\ IdleG
    /\ IdleR

\* metrics_raw[key] = _parse_metric_value(val)
ParseMetricValue ==
    /\ pcN = "start"
    /\ parsed' = _parse_metric_value(PyStr(value))
    /\ pcN' = IF parsed'.exc # "" THEN "error" ELSE "parsed"
    /\ UNCHANGED <<value, metrics, metrics_again, reparsed, restN>>

\* "metrics": _normalize_metrics(metrics_raw)
NormalizeMetrics ==
    /\ pcN = "parsed"
    /\ metrics' = _normalize_metrics(<<Item(MetricKey, parsed.value)>>)
    /\ pcN' = "normalized"
    /\ UNCHANGED <<value, parsed, metrics_again, reparsed, restN>>

\* _normalize_metrics applied to its own result
NormalizeAgain ==
    /\ pcN = "normalized"
    /\ metrics_again' = _normalize_metrics(metrics)
    /\ pcN' = "renormalized"
    /\ UNCHANGED <<value, parsed, metrics, reparsed, restN>>

\* _parse_metric_value applied to its own result
ParseAgain ==
    /\ pcN = "renormalized"
    /\ reparsed' = _parse_metric_value(parsed.value)
    /\ pcN' = "reparsed"
    /\ UNCHANGED <<value, parsed, metrics, metrics_again, restN>>

NextN == ParseMetricValue \/ NormalizeMetrics \/ NormalizeAgain \/ ParseAgain

SpecN == InitN /\ [][NextN]_vars

----------------------------------------------------------------------------
(* Unit normalizer: what the claims speak of *)

\* C12: for every string value the normalizer returns a normalized number
\* or seconds record or the original string unchanged, and it never raises.
C12_NumberOrOriginalNeverRaises ==
    /\ pcN # "error"
    /\ pcN = "parsed" =>
          \/ parsed.value.kind \in {"int", "float", "dict"}
          \/ parsed.value = PyStr(value)

C12_Witness ==
    /\ pcN = "error"
    /\ value = <<"i", "n", "f", " ", "B">>
    /\ parsed.exc = "OverflowError"

Zeros(n) == [i \in 1..n |-> 0]

\* x is the number ds * 10^-scale (compared after scaling both to whole
\* numbers)
IsNumber(x, ds, scale) ==
    /\ x.cls = "finite"
    /\ ~x.neg
    /\ StripLeadingZeros(x.digits \o Zeros(scale))
         = StripLeadingZeros(ds \o Zeros(x.scale))

\* The unit suffixes and the power of ten each divides by.
UnitScales ==
    { [suf |-> <<"s">>, k |-> 0],
      [suf |-> <<"m", "s">>, k |-> 3],
      [suf |-> <<"u", "s">>, k |-> 6],
      [suf |-> <<MicroSign, "s">>, k |-> 6],
      [suf |-> <<"n", "s">>, k |-> 9] }

\* The value of the metric key in a normalized metrics dict.
MetricAt(d, k) == d[CHOOSE i \in DOMAIN d : d[i].key = k].val

HasMetric(d, k) == \E i \in DOMAIN d : d[i].key = k

\* C13: a value with suffix ms is divided by 1000, us/µs by 1,000,000, ns by
\* 1,000,000,000 and a bare trailing s is seconds; "1500ms" gives 1.5 s,
\* "2500000ns" gives 0.0025 s, "10 B" the integer 10 and "54073125055" the
\* integer 54073125055.
C13_UnitConversion ==
    /\ pcN \in {"parsed", "normalized", "renormalized", "reparsed"} =>
          /\ \A u \in UnitScales : \A i \in 1..Len(value) :
                LET num == SubSeq(value, 1, i)
                IN (value = num \o u.suf /\ IsDecimal(num)) =>
                      /\ parsed.exc = ""
                      /\ parsed.value.kind = "dict"
                      /\ parsed.value._unit = "s"
                      /\ parsed.value._raw = value
                      /\ parsed.value._value.kind = "float"
                      /\ IsNumber(parsed.value._value, DigitsIn(num),
                                  FractionLen(num) + u.k)
          /\ value = <<"1", "5", "0", "0", "m", "s">> =>
                parsed.value._value =
                    [kind |-> "float", cls |-> "finite", neg |-> FALSE,
                     digits |-> <<1, 5>>, scale |-> 1]
          /\ value = <<"2", "5", "0", "0", "0", "0", "0", "n", "s">> =>
                parsed.value._value =
                    [kind |-> "float", cls |-> "finite", neg |-> FALSE,
                     digits |-> <<2, 5>>, scale |-> 4]
          /\ value = <<"1", "0", " ", "B">> =>
                parsed.value =
                    [kind |-> "int", cls |-> "finite", neg |-> FALSE,
                     digits |-> <<1, 0>>, scale |-> 0]
          /\ value = <<"5", "4", "0", "7", "3", "1", "2", "5", "0", "5", "5">> =>
                parsed.value =
                    [kind |-> "int", cls |-> "finite", neg |-> FALSE,
                     digits |-> <<5, 4, 0, 7, 3, 1, 2, 5, 0, 5, 5>>, scale |-> 0]
    /\ pcN \in {"normalized", "renormalized", "reparsed"} =>
          IF parsed.value.kind = "dict"
          THEN /\ MetricAt(metrics, MetricKey \o <<"_", "s">>) = parsed.value._value
               /\ MetricAt(metrics, MetricKey) = PyStr(parsed.value._raw)
          ELSE /\ MetricAt(metrics, MetricKey) = parsed.value
               /\ ~HasMetric(metrics, MetricKey \o <<"_", "s">>)

C13_Witness ==
    /\ pcN = "normalized"
    /\ value = <<"2", "5", "0", "0", "0", "0", "0", "n", "s">>
    /\ MetricAt(metrics, <<"t", "_", "s">>) =
           [kind |-> "float", cls |-> "finite", neg |-> FALSE,
            digits |-> <<2, 5>>, scale |-> 4]

\* C14: normalizing a value that is already a canonical number returns it
\* unchanged, so normalizing twice gives the same result as normalizing once.
C14_NormalizingTwiceIsOnce ==
    /\ pcN \in {"renormalized", "reparsed"} => metrics_again = metrics
    /\ pcN = "reparsed" => reparsed = parsed

C14_Witness ==
    /\ pcN = "reparsed"
    /\ value = <<"1", "0", " ", "B">>
    /\ parsed.value.kind = "int"
    /\ reparsed.exc = "AttributeError"
    /\ metrics_again = metrics

----------------------------------------------------------------------------
(* Parser A: parse_datafusion_explain_text.  A line is the sequence of its *)
(* characters; the text is given by its lines.                             *)

UpperCase == <<"P", "L", "A", "N", "T", "Y", "E">>

\* re.IGNORECASE
Lower(c) ==
    IF \E i \in DOMAIN UpperCase : UpperCase[i] = c
    THEN <<"p", "l", "a", "n", "t", "y", "e">>[CHOOSE i \in DOMAIN UpperCase : UpperCase[i] = c]
    ELSE c

\* \s* from position i: the position of the first non-blank
RECURSIVE SkipBlanks(_, _)
SkipBlanks(s, i) == IF i <= Len(s) /\ s[i] = SP THEN SkipBlanks(s, i + 1) ELSE i

\* the literal w at position i, or 0 when it is not there; else the
\* position behind it and the blanks that follow
After(s, i, w) ==
    IF /\ i > 0
       /\ i + Len(w) - 1 <= Len(s)
       /\ \A k \in DOMAIN w : Lower(s[i + k - 1]) = w[k]
    THEN SkipBlanks(s, i + Len(w))
    ELSE 0

\* _PLAN_HEADER_RE.search(ln): \|\s*plan_type\s*\|\s*plan\s*\|
MatchesPlanHeader_AnyRow(ln) == \E i \in DOMAIN ln : ln[i] = "|"

MatchesPlanHeader(ln) ==
    \E i \in DOMAIN ln :
        LET a == After(ln, i, <<"|">>)
            b == After(ln, a, <<"p", "l", "a", "n", "_", "t", "y", "p", "e">>)
            c == After(ln, b, <<"|">>)
            d == After(ln, c, <<"p", "l", "a", "n">>)
        IN d > 0 /\ d <= Len(ln) /\ ln[d] = "|"

\* _BAR_LINE_RE.match(ln): ^\+[-+]+\+$
MatchesBarLine(ln) ==
    /\ Len(ln) >= 3
    /\ \A i \in DOMAIN ln : ln[i] \in {"+", "-"}
    /\ ln[1] = "+"
    /\ ln[Len(ln)] = "+"

\* The plan column of a table row, None with fewer than three bars.  (The
\* left column only names the plan_type of the nodes.)
_split_plan_columns(line) ==
    LET bar_idx == {i \in DOMAIN line : line[i] = "|"}
        first == CHOOSE i \in bar_idx : \A j \in bar_idx : i <= j
        second == CHOOSE i \in bar_idx \ {first} : \A j \in bar_idx \ {first} : i <= j
        last == CHOOSE i \in bar_idx : \A j \in bar_idx : j <= i
        plan == SubSeq(line, second + 1, last - 1)
    IN IF line = <<>> \/ Head(line) # "|" \/ Cardinality(bar_idx) < 3 THEN None
       ELSE Some(IF plan # <<>> /\ Head(plan) = SP THEN Tail(plan) ELSE plan)

\* while i < len(lines) and not lines[i].startswith("|"): i += 1
RECURSIVE SkipToRow(_, _)
SkipToRow(lns, i) ==
    IF i <= Len(lns) /\ (lns[i] = <<>> \/ Head(lns[i]) # "|")
    THEN SkipToRow(lns, i + 1)
    ELSE i

\* Collect until the closing border line.
RECURSIVE CollectRows(_, _)
CollectRows(lns, i) ==
    IF i > Len(lns) \/ MatchesBarLine(lns[i]) THEN <<>>
    ELSE LET cols == _split_plan_columns(lns[i])
         IN (IF cols # None THEN cols ELSE <<>>) \o CollectRows(lns, i + 1)

\* plan_lines of the text: empty when no line holds the header
PlanLinesOf(lns) ==
    LET hdr == {i \in DOMAIN lns : MatchesPlanHeader(lns[i])}
        plan_start_idx == (CHOOSE i \in hdr : \A j \in hdr : i <= j) + 1
    IN IF hdr = {} THEN <<>> ELSE CollectRows(lns, SkipToRow(lns, plan_start_idx))

MaxLines == 3

\* Lines the header pattern is found in.
HeaderLines ==
    { <<"|", " ", "p", "l", "a", "n", "_", "t", "y", "p", "e", " ", "|", " ", "p", "l", "a", "n", " ", "|">>,
      <<"+", "-", "-", "+", "|", "P", "L", "A", "N", "_", "T", "Y", "P", "E", "|", "P", "l", "a", "n", "|">> }

\* A border, rows at depth 0 and 1, a blank row, a row with two bars, a
\* row that is nearly a header, a line outside the table.
OtherLines ==
    { <<"+", "-", "-", "+", "-", "-", "+">>,
      <<"|", " ", "p", " ", "|", " ", "a", " ", "|">>,
      <<"|", " ", "p", " ", "|", " ", " ", " ", "a", " ", "|">>,
      <<"|", " ", "|", " ", "|">>,
      <<"|", " ", "a">>,
      <<"|", " ", "p", "l", "a", "n", "_", "t", "y", "p", "e", " ", "|", " ", "p", "l", "a", "n", "s", " ", "|">>,
      <<"E", "l", "a", "p", "s", "e", "d", " ", "0", ".", "1", " ", "s", "e", "c", "o", "n", "d", "s", ".">> }

RECURSIVE TextsOfLen(_)
TextsOfLen(n) ==
    IF n = 0 THEN {<<>>}
    ELSE {<<ln>> \o t : ln \in HeaderLines \cup OtherLines, t \in TextsOfLen(n - 1)}

InitT ==
    /\ lines \in UNION {TextsOfLen(n) : n \in 0..MaxLines}
    /\ plan_lines = <<>>
    /\ pcT = "locate"
    /\ plan_text = <<>>
    /\ heap = <<>>
    /\ roots = <<>>
    /\ stack = <<>>
    /\ flat = <<>>
    /\ pcA = "idle"
    /\ ids = <<>>
    /\ all_nodes = <<>>
    /\ profile = <<>>
    /\ pcB = "idle"
    /\ root_latency = 0
    /\ breakdown = <<>>
    /\ query_root = <<>>
    /\ nodes = <<>>
    /\ edges = <<>>
    /\ IdleN
    /\ IdleC
    /\ IdleD
    /\ IdleG
    /\ IdleR

\* Locate the plan table and collect its rows.
LocatePlanTable ==
    /\ pcT = "locate"
    /\ plan_lines' = PlanLinesOf(lines)
    /\ pcT' = "build"
    /\ pcA' = "loop"
    /\ UNCHANGED <<lines, plan_text, heap, roots, stack, flat, ids, all_nodes, restT>>

\* _build_tree(plan_lines), one row
BuildTreeRow ==
    /\ pcT = "build"
    /\ pcA = "loop"
    /\ plan_lines # <<>>
    /\ BuildTreeStep(Head(plan_lines))
    /\ plan_lines' = Tail(plan_lines)
    /\ UNCHANGED <<lines, pcT, ids, all_nodes, restT>>

\* return {..., "plan_roots": roots, "nodes_flat": flat}
ReturnParsed ==
    /\ pcT = "build"
    /\ pcA = "loop"
    /\ plan_lines = <<>>
    /\ pcT' = "returned"
    /\ pcA' = "parsed"
    /\ UNCHANGED <<lines, plan_lines, plan_text, heap, roots, stack, flat, ids,
                   all_nodes, restT>>

NextT == LocatePlanTable \/ BuildTreeRow \/ ReturnParsed

SpecT == InitT /\ [][NextT]_vars

\* C18: when the text has no plan-table header row, the parser returns a
\* result with empty plan_roots and empty nodes_flat and does not raise.
C18_NoHeaderEmptyPlan ==
    (\A i \in DOMAIN lines : lines[i] \notin HeaderLines) =>
        /\ pcA # "build_error"
        /\ pcT \in {"build", "returned"} => plan_lines = <<>>
        /\ pcT = "returned" => roots = <<>> /\ flat = <<>> /\ heap = <<>>

C18_Witness ==
    /\ pcT = "returned"
    /\ Len(lines) >= 2
    /\ \A i \in DOMAIN lines : lines[i] \notin HeaderLines
    /\ \E i \in DOMAIN lines : lines[i] = <<"|", " ", "p", " ", "|", " ", "a", " ", "|">>
    /\ roots = <<>>
    /\ flat = <<>>

----------------------------------------------------------------------------
(* Parser C: generate_combined_visualization_snowflake.  Numbers are exact *)
(* fractions; a dict of numbers is a function from its keys.  Labels of    *)
(* graph nodes and bars are left out: a node is named by its id.           *)

FracAdd(a, b) == Frac(a.num * b.den + b.num * a.den, a.den * b.den)

FracMul(a, b) == Frac(a.num * b.num, a.den * b.den)

FracLeq(a, b) == a.num * b.den <= b.num * a.den

\* d without key k: d.pop(k, None)
Without(d, k) == [c \in DOMAIN d \ {k} |-> d[c]]

\* sum(d.values())
RECURSIVE SumValues(_)
SumValues(d) ==
    IF DOMAIN d = {} THEN Zero
    ELSE LET k == CHOOSE k \in DOMAIN d : TRUE
         IN FracAdd(d[k], SumValues(Without(d, k)))

\* max(d.values())
MaxValue(d) == CHOOSE v \in Range(d) : \A w \in Range(d) : FracLeq(w, v)

EdgesToParents_FirstOnly(op_id, parents, op_ids) ==
    IF parents # <<>> /\ Head(parents) \in op_ids
    THEN <<[tail |-> op_id, head |-> Head(parents)]>>
    ELSE <<>>

\* for parent_id in op['parentOperators']: if parent_id in op_map: dot.edge
RECURSIVE EdgesToParents(_, _, _)
EdgesToParents(op_id, parents, op_ids) ==
    IF parents = <<>> THEN <<>>
    ELSE (IF Head(parents) \in op_ids
          THEN <<[tail |-> op_id, head |-> Head(parents)]>> ELSE <<>>)
            \o EdgesToParents(op_id, Tail(parents), op_ids)

\* for op in operators_list: dot.node and the edges to its parents
RECURSIVE RenderOperators(_, _, _)
RenderOperators(ops, op_ids, g) ==
    IF ops = <<>> THEN g
    ELSE LET op == Head(ops)
         IN RenderOperators(Tail(ops), op_ids,
                [nodes |-> Append(g.nodes, op.id),
                 edges |-> g.edges \o
                     (IF op.parentOperators = None THEN <<>>
                      ELSE EdgesToParents(op.id, op.parentOperators[1], op_ids))])

\* The fields of an operator's statistics whose name holds elapsed, duration
\* or time, and the power of ten the unit in the name divides by (0: none).
UnitPower(name) ==
    CASE name = "ELAPSED_MS" -> 3
      [] name = "DURATION_US" -> 6
      [] name = "TIME_NS" -> 9
      [] OTHER -> 0

IsTimeName(name) == name \in {"ELAPSED_MS", "DURATION_US", "TIME_NS", "ELAPSED"}

\* None, or the seconds of the first field with a unit, else of the first
\* field (a value above 10000 read as milliseconds)
_get_elapsed_seconds(op_stat) ==
    LET IsCandidate(t) == t.val # None /\ IsTimeName(t.name)
        HasUnit(t) == UnitPower(t.name) > 0
        candidates == SelectSeq(op_stat.timings, IsCandidate)
        units == SelectSeq(candidates, HasUnit)
        val == candidates[1].val[1]
    IN IF units # <<>>
       THEN Some(FracMul(units[1].val[1], Frac(1, 10 ^ UnitPower(units[1].name))))
       ELSE IF candidates # <<>>
            THEN Some(IF FracLess(Frac(10000, 1), val)
                      THEN FracMul(val, Frac(1, 1000)) ELSE val)
       ELSE None

_get_total_query_seconds(smry) ==
    IF ~smry.isdict THEN None
    ELSE IF smry.TOTAL_ELAPSED_TIME # None
         THEN Some(FracMul(smry.TOTAL_ELAPSED_TIME[1], Frac(1, 1000)))
    ELSE IF smry.total_elapsed_time # None
         THEN Some(FracMul(smry.total_elapsed_time[1], Frac(1, 1000)))
    ELSE None

ComponentSeconds_PercentAsFraction(v, is_ratio, is_percent, base) ==
    IF is_ratio
    THEN IF base # None THEN FracMul(v, base[1]) ELSE Zero
    ELSE IF FracLess(Frac(10000, 1), v)
         THEN FracMul(v, Frac(1, 1000)) ELSE v

ComponentSeconds_NoBaseKeepsValue(v, is_ratio, is_percent, base) ==
    IF is_ratio
    THEN LET frac == IF is_percent THEN FracMul(v, Frac(1, 100)) ELSE v
         IN IF base # None THEN FracMul(frac, base[1]) ELSE frac
    ELSE IF FracLess(Frac(10000, 1), v)
         THEN FracMul(v, Frac(1, 1000)) ELSE v

\* sec of one component
ComponentSeconds(v, is_ratio, is_percent, base) ==
    IF is_ratio
    THEN LET frac == IF is_percent THEN FracMul(v, Frac(1, 100)) ELSE v
         IN IF base # None THEN FracMul(frac, base[1]) ELSE Zero
    ELSE IF FracLess(Frac(10000, 1), v)
         THEN FracMul(v, Frac(1, 1000)) ELSE v

\* The body of `for op_stat in sorted(stats, ...)` after the label: the new
\* breakdown_data for the components comps seen so far.
PlotBreakdown(op_stat, total_query_seconds, bd, comps) ==
    LET brk == Without(op_stat.EXECUTION_TIME_BREAKDOWN, "overall_percentage")
        sm == SumValues(brk)
        mx == MaxValue(brk)
        is_fraction == FracLeq(mx, Frac(105, 100)) \/ FracLeq(sm, Frac(105, 100))
        is_percent == FracLeq(Frac(95, 1), sm) /\ FracLeq(sm, Frac(105, 1))
        base == IF total_query_seconds # None THEN total_query_seconds
                ELSE _get_elapsed_seconds(op_stat)
        So_far(c) == IF c \in DOMAIN bd THEN bd[c] ELSE <<>>
    IN [c \in comps \cup DOMAIN brk |->
           IF c \in DOMAIN brk
           THEN Append(So_far(c),
                       ComponentSeconds(brk[c], is_fraction \/ is_percent,
                                        is_percent, base))
           ELSE Append(So_far(c), Zero)]

\* sorted(stats, key=lambda x: x.get("OPERATOR_ID", 0)): stable, ascending
RECURSIVE SortById(_)
SortById(ops) ==
    IF ops = <<>> THEN <<>>
    ELSE LET rest == SortById(Front(ops))
             Before(o) == o.OPERATOR_ID <= Last(ops).OPERATOR_ID
             After_(o) == ~Before(o)
         IN SelectSeq(rest, Before) \o <<Last(ops)>> \o SelectSeq(rest, After_)

----------------------------------------------------------------------------
(* Parser C: the artifacts *)

MaxOps == 3

MaxStats == 2

\* parentOperators of an operator: no key, or a list of ids (9 is the id
\* of no operator)
ParentLists ==
    {None, Some(<<>>), Some(<<1>>), Some(<<1, 2>>), Some(<<2, 9>>), Some(<<3>>)}

\* Operations[0] with n operators, the i-th with id i
OperatorLists(n) ==
    {[i \in 1..n |-> [id |-> i, parentOperators |-> ps[i]]] :
        ps \in [1..n -> ParentLists]}

PlanJsons ==
    {[has_operations |-> FALSE, Operations |-> <<>>],
     [has_operations |-> TRUE, Operations |-> <<>>]}
    \cup {[has_operations |-> TRUE, Operations |-> <<ops>>] :
            ops \in UNION {OperatorLists(n) : n \in 0..MaxOps}}

Num(n) == Frac(n, 1)

\* Statistics of one operator: its EXECUTION_TIME_BREAKDOWN (empty when
\* the key is missing) and its other fields in order (a val of None is not
\* a number).
OperatorStats ==
    { [EXECUTION_TIME_BREAKDOWN |-> <<>>, timings |-> <<>>],
      [EXECUTION_TIME_BREAKDOWN |-> [c \in {"overall_percentage"} |-> Frac(1, 2)],
       timings |-> <<[name |-> "ELAPSED", val |-> Some(Num(4))]>>],
      [EXECUTION_TIME_BREAKDOWN |->
           [c \in {"a", "b", "overall_percentage"} |->
               IF c = "a" THEN Frac(1, 4) ELSE IF c = "b" THEN Frac(3, 4) ELSE Num(50)],
       timings |-> <<[name |-> "ROWS", val |-> Some(Num(7))],
                     [name |-> "ELAPSED", val |-> None]>>],
      [EXECUTION_TIME_BREAKDOWN |-> [c \in {"a"} |-> Frac(105, 100)],
       timings |-> <<[name |-> "ELAPSED_MS", val |-> Some(Num(3000))]>>],
      [EXECUTION_TIME_BREAKDOWN |-> [c \in {"b"} |-> Frac(106, 100)],
       timings |-> <<>>],
      [EXECUTION_TIME_BREAKDOWN |->
           [c \in {"a", "b"} |-> IF c = "a" THEN Num(45) ELSE Num(50)],
       timings |-> <<[name |-> "ELAPSED", val |-> Some(Num(4))],
                     [name |-> "DURATION_US", val |-> Some(Num(2000000))]>>],
      [EXECUTION_TIME_BREAKDOWN |-> [c \in {"b"} |-> Num(105)],
       timings |-> <<[name |-> "ELAPSED", val |-> Some(Num(20000))]>>],
      [EXECUTION_TIME_BREAKDOWN |-> [c \in {"a"} |-> Num(106)],
       timings |-> <<>>],
      [EXECUTION_TIME_BREAKDOWN |->
           [c \in {"a", "b"} |-> IF c = "a" THEN Num(20000) ELSE Num(2)],
       timings |-> <<[name |-> "TIME_NS", val |-> Some(Num(500000000))]>>],
      [EXECUTION_TIME_BREAKDOWN |->
           [c \in {"a", "b"} |-> IF c = "a" THEN Num(1) ELSE Num(1)],
       timings |-> <<>>] }

\* stats with n operators; their OPERATOR_IDs ascend or descend
StatsLists(n) ==
    {[i \in 1..n |-> [OPERATOR_ID |-> IF up THEN i ELSE n + 1 - i,
                      EXECUTION_TIME_BREAKDOWN |-> s[i].EXECUTION_TIME_BREAKDOWN,
                      timings |-> s[i].timings]] :
        s \in [1..n -> OperatorStats], up \in BOOLEAN}

Summaries ==
    { [isdict |-> FALSE, TOTAL_ELAPSED_TIME |-> None, total_elapsed_time |-> None],
      [isdict |-> TRUE, TOTAL_ELAPSED_TIME |-> Some(Num(2000)),
       total_elapsed_time |-> Some(Num(7))],
      [isdict |-> TRUE, TOTAL_ELAPSED_TIME |-> None,
       total_elapsed_time |-> Some(Num(500))] }

\* Every plan with no statistics, and every statistics with a plan of one
\* operator.
Artifacts ==
    {[plan_json |-> p, stats |-> <<>>,
      summary |-> [isdict |-> FALSE, TOTAL_ELAPSED_TIME |-> None,
                   total_elapsed_time |-> None]] : p \in PlanJsons}
    \cup {[plan_json |-> [has_operations |-> TRUE,
                          Operations |-> <<<<[id |-> 1, parentOperators |-> None]>>>>],
           stats |-> s, summary |-> m] :
            s \in UNION {StatsLists(n) : n \in 1..MaxStats}, m \in Summaries}

InitC ==
    /\ \E a \in Artifacts :
          /\ plan_json = a.plan_json
          /\ stats = a.stats
          /\ summary = a.summary
    /\ graph = [nodes |-> <<>>, edges |-> <<>>]
    /\ labels = <<>>
    /\ breakdown_data = <<>>
    /\ all_components = {}
    /\ pcC = "render"
    /\ plan_text = <<>>
    /\ heap = <<>>
    /\ roots = <<>>
    /\ stack = <<>>
    /\ flat = <<>>
    /\ pcA = "idle"
    /\ ids = <<>>
    /\ all_nodes = <<>>
    /\ profile = <<>>
    /\ pcB = "idle"
    /\ root_latency = 0
    /\ breakdown = <<>>
    /\ query_root = <<>>
    /\ nodes = <<>>
    /\ edges = <<>>
    /\ IdleN
    /\ IdleT
    /\ IdleD
    /\ IdleG
    /\ IdleR

\* _render_snowflake_tree_image: ValueError without operations
RenderSnowflakeTree ==
    /\ pcC = "render"
    /\ IF ~plan_json.has_operations \/ plan_json.Operations = <<>>
       THEN /\ pcC' = "render_error"
            /\ UNCHANGED graph
       ELSE LET operators_list == plan_json.Operations[1]
                op_ids == {operators_list[i].id : i \in DOMAIN operators_list}
            IN /\ graph' = RenderOperators(operators_list, op_ids, graph)
               /\ pcC' = "plot"
    /\ UNCHANGED <<plan_json, stats, summary, labels, breakdown_data,
                   all_components, restC>>

\* _plot_snowflake_time_breakdown: one operator of sorted(stats)
PlotOperator ==
    /\ pcC = "plot"
    /\ Len(labels) < Len(stats)
    /\ LET op_stat == SortById(stats)[Len(labels) + 1]
           brk == Without(op_stat.EXECUTION_TIME_BREAKDOWN, "overall_percentage")
       IN /\ labels' = Append(labels, op_stat.OPERATOR_ID)
          /\ IF DOMAIN brk = {}
             THEN /\ breakdown_data' =
                        [c \in all_components |-> Append(breakdown_data[c], Zero)]
                  /\ UNCHANGED all_components
             ELSE /\ breakdown_data' =
                        PlotBreakdown(op_stat, _get_total_query_seconds(summary),
                                      breakdown_data, all_components)
                  /\ all_components' = all_components \cup DOMAIN brk
    /\ UNCHANGED <<plan_json, stats, summary, graph, pcC, restC>>

\* after the loop: lists shorter than labels are extended with 0.0
PlotFinish ==
    /\ pcC = "plot"
    /\ Len(labels) = Len(stats)
    /\ breakdown_data' =
          [c \in all_components |->
              breakdown_data[c] \o
                  [i \in 1..(Len(labels) - Len(breakdown_data[c])) |-> Zero]]
    /\ pcC' = "done"
    /\ UNCHANGED <<plan_json, stats, summary, graph, labels, all_components, restC>>

NextC == RenderSnowflakeTree \/ PlotOperator \/ PlotFinish

SpecC == InitC /\ [][NextC]_vars

----------------------------------------------------------------------------
(* Parser C: claims *)

\* The operator whose statistics were plotted last, its components, and
\* how the values of its breakdown classify.
LastPlotted == CHOOSE o \in Range(stats) : o.OPERATOR_ID = Last(labels)

ComponentsOf(o) == DOMAIN o.EXECUTION_TIME_BREAKDOWN \ {"overall_percentage"}

RECURSIVE TotalOver(_, _)
TotalOver(o, cs) ==
    IF cs = {} THEN [num |-> 0, den |-> 1]
    ELSE LET c == CHOOSE c \in cs : TRUE
             v == o.EXECUTION_TIME_BREAKDOWN[c]
             t == TotalOver(o, cs \ {c})
         IN Frac(v.num * t.den + t.num * v.den, v.den * t.den)

AtMost(x, n, d) == x.num * d <= n * x.den

AtLeast(x, n, d) == x.num * d >= n * x.den

LooksFraction(o) ==
    \/ AtMost(TotalOver(o, ComponentsOf(o)), 105, 100)
    \/ \A c \in ComponentsOf(o) : AtMost(o.EXECUTION_TIME_BREAKDOWN[c], 105, 100)

LooksPercent(o) ==
    /\ AtLeast(TotalOver(o, ComponentsOf(o)), 95, 1)
    /\ AtMost(TotalOver(o, ComponentsOf(o)), 105, 1)

\* The summary's total elapsed time, in milliseconds, when present
SummaryTotal ==
    IF ~summary.isdict THEN <<>>
    ELSE IF summary.TOTAL_ELAPSED_TIME # <<>> THEN summary.TOTAL_ELAPSED_TIME
    ELSE summary.total_elapsed_time

\* The base of operator o in seconds, as a set: empty when there is none
BaseOf(o) ==
    IF SummaryTotal # <<>>
    THEN {Frac(SummaryTotal[1].num, SummaryTotal[1].den * 1000)}
    ELSE {b[1] : b \in {_get_elapsed_seconds(o)} \ {<<>>}}

\* What component c of operator o contributes, by the stated rules;
\* big_is_ms: an absolute value above 10000 is read as milliseconds.
Contribution(o, c, big_is_ms) ==
    LET v == o.EXECUTION_TIME_BREAKDOWN[c]
        b == CHOOSE b \in BaseOf(o) : TRUE
    IN IF LooksPercent(o) THEN Frac(v.num * b.num, v.den * 100 * b.den)
       ELSE IF LooksFraction(o) THEN Frac(v.num * b.num, v.den * b.den)
       ELSE IF big_is_ms /\ ~AtMost(v, 10000, 1) THEN Frac(v.num, v.den * 1000)
       ELSE v

JustPlotted == pcC = "plot" /\ labels # <<>>

HasBaseIfRatio(o) == (LooksFraction(o) \/ LooksPercent(o)) => BaseOf(o) # {}

\* C15 (as stated): the component values of an operator whose total or
\* largest value is at most 1.05 are fractions and those whose total is
\* within [95, 105] are percentages; the base is the summary's total
\* elapsed time, else the operator's elapsed time; a fraction v contributes
\* v * base seconds, a percentage (v / 100) * base, and an absolute value
\* contributes itself.
C15_AbsoluteContributesItself ==
    JustPlotted /\ HasBaseIfRatio(LastPlotted) =>
        \A c \in ComponentsOf(LastPlotted) :
            Last(breakdown_data[c]) = Contribution(LastPlotted, c, FALSE)

\* C15 (amended): as stated, except that an absolute value above 10000 is
\* read as milliseconds and contributes a thousandth of itself.
C15_AbsoluteAbove10000IsMilliseconds ==
    JustPlotted /\ HasBaseIfRatio(LastPlotted) =>
        \A c \in ComponentsOf(LastPlotted) :
            Last(breakdown_data[c]) = Contribution(LastPlotted, c, TRUE)

\* A percentage operator (45 + 50) whose base is its own elapsed time (two
\* seconds, from DURATION_US) after a summary without a total, and an
\* absolute operator with a value of 20000.
C15_Witness ==
    /\ JustPlotted
    /\ Len(labels) = 2
    /\ SummaryTotal = <<>>
    /\ LooksPercent(LastPlotted) /\ ~LooksFraction(LastPlotted)
    /\ BaseOf(LastPlotted) = {[num |-> 2, den |-> 1]}
    /\ Last(breakdown_data["a"]) = [num |-> 9, den |-> 10]
    /\ breakdown_data["a"][1] = [num |-> 20, den |-> 1]

\* C16: when the values of an operator are fractions or percentages and
\* neither the summary's total nor the operator's elapsed time is there,
\* every component of the operator contributes 0 and the plot goes on.
C16_NoBaseContributesZero ==
    JustPlotted /\ (LooksFraction(LastPlotted) \/ LooksPercent(LastPlotted))
                /\ BaseOf(LastPlotted) = {} =>
        /\ \A c \in ComponentsOf(LastPlotted) :
              Last(breakdown_data[c]) = [num |-> 0, den |-> 1]
        /\ ENABLED (PlotOperator \/ PlotFinish)

C16_Witness ==
    /\ JustPlotted
    /\ LooksFraction(LastPlotted)
    /\ BaseOf(LastPlotted) = {}
    /\ ComponentsOf(LastPlotted) = {"a", "b"}
    /\ LastPlotted.EXECUTION_TIME_BREAKDOWN["b"] = [num |-> 3, den |-> 4]
    /\ LastPlotted.timings # <<>>

\* The operator records of the plan and the (record, parent) positions whose
\* parent id is the id of a record.
OperatorRecords == plan_json.Operations[1]

OperatorIds == {OperatorRecords[i].id : i \in DOMAIN OperatorRecords}

ParentsAt(i) ==
    IF OperatorRecords[i].parentOperators = <<>> THEN <<>>
    ELSE OperatorRecords[i].parentOperators[1]

KnownParentRefs ==
    UNION {{<<i, j>> : j \in {j \in DOMAIN ParentsAt(i) : ParentsAt(i)[j] \in OperatorIds}} :
              i \in DOMAIN OperatorRecords}

\* C17: the rendered tree has exactly one node per operator record, and one
\* edge from child to parent for every parent id of a record that is the id
\* of a record in the list; other parent ids give no edge.
C17_OneNodePerOperatorEdgesToKnownParents ==
    pcC \in {"plot", "done"} =>
        /\ Len(graph.nodes) = Len(OperatorRecords)
        /\ \A i \in DOMAIN OperatorRecords : graph.nodes[i] = OperatorRecords[i].id
        /\ Len(graph.edges) = Cardinality(KnownParentRefs)
        /\ \A e \in Range(graph.edges) :
              Cardinality({k \in DOMAIN graph.edges : graph.edges[k] = e})
                = Cardinality({r \in KnownParentRefs :
                      /\ OperatorRecords[r[1]].id = e.tail
                      /\ ParentsAt(r[1])[r[2]] = e.head})

\* three operators: one with two known parents, one with a known and an
\* unknown parent
C17_Witness ==
    /\ pcC = "plot"
    /\ Len(OperatorRecords) = 3
    /\ OperatorRecords[3].parentOperators = <<<<1, 2>>>>
    /\ OperatorRecords[2].parentOperators = <<<<2, 9>>>>
    /\ Len(graph.edges) = 3

\* C19: a plan without the Operations key, or with an empty one, gives an
\* empty result of the tree renderer instead of an exception.
C19_NoOperationsNoThrow ==
    (~plan_json.has_operations \/ plan_json.Operations = <<>>) =>
        pcC # "render_error"

C19_Witness ==
    /\ pcC = "render_error"
    /\ plan_json.has_operations
    /\ plan_json.Operations = <<>>

----------------------------------------------------------------------------
(* Batch drivers.  A plan file is known by what it holds and by whether    *)
(* its image exists before the run:                                        *)
(*   "plan"       a well-formed plan                                       *)
(*   "no_plan"    nothing to load: no JSON object, no plan table           *)
(*   "malformed"  loads, but the expected structure is missing             *)

MaxFiles == 3

Contents == {"plan", "no_plan", "malformed"}

PlanFiles(n) == [1..n -> [content : Contents, exists : BOOLEAN]]

\* extract_json_from_file gives a non-empty object
LoadsJson(f) == f.content # "no_plan"

\* generate_combined_visualization_* returns: it raises ValueError on a
\* plan without roots, Operations or operator_tree.tree
Renders(f) == f.content = "plan"

InitD ==
    /\ driver \in {"datafusion", "snowflake", "duckdb"}
    /\ overwrite \in BOOLEAN
    /\ plan_files \in UNION {PlanFiles(n) : n \in 0..MaxFiles}
    /\ visited = 0
    /\ written = {}
    /\ processed = 0
    /\ skipped = 0
    /\ failures = <<>>
    /\ pcD = "loop"
    /\ plan_text = <<>>
    /\ heap = <<>>
    /\ roots = <<>>
    /\ stack = <<>>
    /\ flat = <<>>
    /\ pcA = "idle"
    /\ ids = <<>>
    /\ all_nodes = <<>>
    /\ profile = <<>>
    /\ pcB = "idle"
    /\ root_latency = 0
    /\ breakdown = <<>>
    /\ query_root = <<>>
    /\ nodes = <<>>
    /\ edges = <<>>
    /\ IdleN
    /\ IdleT
    /\ IdleC
    /\ IdleG
    /\ IdleR

\* process_all_datafusion_plans: one pass of the loop, all of it in try
ProcessDatafusionPlan ==
    /\ pcD = "loop"
    /\ driver = "datafusion"
    /\ visited < Len(plan_files)
    /\ LET i == visited + 1
           f == plan_files[i]
       IN /\ visited' = i
          /\ IF f.exists /\ ~overwrite
             THEN /\ skipped' = skipped + 1
                  /\ UNCHANGED <<written, processed, failures>>
             ELSE IF Renders(f)
             THEN /\ written' = written \cup {i}
                  /\ processed' = processed + 1
                  /\ UNCHANGED <<skipped, failures>>
             ELSE /\ failures' = Append(failures, i)
                  /\ UNCHANGED <<written, processed, skipped>>
    /\ UNCHANGED <<driver, overwrite, plan_files, pcD, restD>>

\* process_snowflake_plan_dir: one pass of the loop, all of it in try;
\* the loop sets overwrite = True before it looks at the image
ProcessSnowflakePlan ==
    /\ pcD = "loop"
    /\ driver = "snowflake"
    /\ visited < Len(plan_files)
    /\ LET i == visited + 1
           f == plan_files[i]
           overwrite_now == TRUE
       IN /\ visited' = i
          /\ IF f.exists /\ ~overwrite_now
             THEN /\ skipped' = skipped + 1
                  /\ UNCHANGED <<written, processed, failures>>
             ELSE IF ~LoadsJson(f)
             THEN /\ failures' = Append(failures, i)
                  /\ UNCHANGED <<written, processed, skipped>>
             ELSE IF Renders(f)
             THEN /\ written' = written \cup {i}
                  /\ processed' = processed + 1
                  /\ UNCHANGED <<skipped, failures>>
             ELSE /\ failures' = Append(failures, i)
                  /\ UNCHANGED <<written, processed, skipped>>
    /\ UNCHANGED <<driver, overwrite, plan_files, pcD, restD>>

\* process_all_duckdb_plans: one pass of the loop; no try, no counters
ProcessDuckdbPlan ==
    /\ pcD = "loop"
    /\ driver = "duckdb"
    /\ visited < Len(plan_files)
    /\ LET i == visited + 1
           f == plan_files[i]
       IN /\ visited' = i
          /\ IF (~overwrite /\ f.exists) \/ ~LoadsJson(f)
             THEN UNCHANGED <<written, pcD>>
             ELSE IF Renders(f)
             THEN /\ written' = written \cup {i}
                  /\ UNCHANGED pcD
             ELSE /\ pcD' = "aborted"
                  /\ UNCHANGED written
    /\ UNCHANGED <<driver, overwrite, plan_files, processed, skipped, failures, restD>>

\* the loop is over
FinishBatch ==
    /\ pcD = "loop"
    /\ visited = Len(plan_files)
    /\ pcD' = "done"
    /\ UNCHANGED <<driver, overwrite, plan_files, visited, written, processed,
                   skipped, failures, restD>>

NextD ==
    \/ ProcessDatafusionPlan
    \/ ProcessSnowflakePlan
    \/ ProcessDuckdbPlan
    \/ FinishBatch

SpecD == InitD /\ [][NextD]_vars

\* C20: a plan file that fails to parse or render does not abort the batch:
\* the loop goes on, and when it is over every well-formed plan without an
\* image has got one.
C20_FailureDoesNotAbortBatch ==
    /\ pcD # "aborted"
    /\ pcD = "done" =>
          \A i \in DOMAIN plan_files :
              plan_files[i].content = "plan" /\ ~plan_files[i].exists => i \in written

\* the DuckDB driver stops at a malformed first file; the well-formed
\* second file is never taken
C20_Witness ==
    /\ pcD = "aborted"
    /\ driver = "duckdb"
    /\ visited = 1
    /\ plan_files[1].content = "malformed"
    /\ Len(plan_files) >= 2
    /\ plan_files[2] = [content |-> "plan", exists |-> FALSE]
    /\ written = {}

----------------------------------------------------------------------------
(* The assembler of Parser A output on node lists a caller hands to it:    *)
(* the children of a node are nodes made after it, and a node may be held  *)
(* by more than one children list, or more than once by one.               *)

MaxGraph == 3

ChildLists(n) ==
    {<<>>} \cup {<<c>> : c \in (n + 1)..MaxGraph}
           \cup {<<c, d>> : c, d \in (n + 1)..MaxGraph}

Graphs ==
    {[n \in 1..MaxGraph |-> [raw |-> <<"n">>, depth |-> 0, children |-> kids[n]]] :
        kids \in {k \in [1..MaxGraph -> UNION {ChildLists(n) : n \in 1..MaxGraph}] :
                    \A n \in 1..MaxGraph : k[n] \in ChildLists(n)}}

RootLists == {<<r>> : r \in 1..MaxGraph} \cup {<<r, s>> : r, s \in 1..MaxGraph}

\* The same nodes under other identities: node n is node pi[n] of the twin
Renamings ==
    {[n \in 1..MaxGraph |-> n], [n \in 1..MaxGraph |-> MaxGraph + 1 - n]}

Inverse(pi) == [m \in 1..MaxGraph |-> CHOOSE n \in 1..MaxGraph : pi[n] = m]

Rename(seq, pi) == [k \in DOMAIN seq |-> pi[seq[k]]]

Twin(h, rts, pi) ==
    [of |-> pi,
     heap |-> [m \in 1..MaxGraph |->
                  [raw |-> <<"t">>, depth |-> 1,
                   children |-> Rename(h[Inverse(pi)[m]].children, pi)]],
     roots |-> Rename(rts, pi),
     ids |-> <<>>,
     all_nodes |-> <<>>,
     pc |-> "parsed"]

InitG ==
    /\ heap \in Graphs
    /\ roots \in RootLists
    /\ \E pi \in Renamings : twin = Twin(heap, roots, pi)
    /\ plan_text = <<>>
    /\ stack = <<>>
    /\ flat = <<>>
    /\ pcA = "parsed"
    /\ ids = <<>>
    /\ all_nodes = <<>>
    /\ profile = <<>>
    /\ pcB = "idle"
    /\ root_latency = 0
    /\ breakdown = <<>>
    /\ query_root = <<>>
    /\ nodes = <<>>
    /\ edges = <<>>
    /\ IdleN
    /\ IdleT
    /\ IdleC
    /\ IdleD
    /\ IdleR

\* the run over the twin
RenderTwin ==
    /\ twin.pc = "parsed"
    /\ twin' = [twin EXCEPT !.ids = _assign_node_ids(twin.heap, twin.roots),
                            !.all_nodes = _collect_nodes(twin.heap, twin.roots),
                            !.pc = "rendered"]
    /\ UNCHANGED <<varsA, restG>>

NextG == RenderTree \/ RenderTwin

SpecG == InitG /\ [][NextG]_vars

\* The nodes that more than one path from the roots leads to: held by two
\* places of the reachable nodes and of roots together.
Holders(n) ==
    {<<p, k>> \in ParentEdges(n) : p \in ReachableFrom(Range(roots), {})}
        \cup {<<0, k>> : k \in {j \in DOMAIN roots : roots[j] = n}}

Shared == {n \in ReachableFrom(Range(roots), {}) : Cardinality(Holders(n)) > 1}

\* C21: the assembler visits a node once even when more than one path
\* leads to it: every reachable node has one id, no two nodes share an id,
\* and the node is once in the flattened list.
C21_SharedNodeVisitedOnce ==
    pcA = "rendered" =>
        /\ DOMAIN ids = ReachableFrom(Range(roots), {})
        /\ \A m, n \in DOMAIN ids : ids[m] = ids[n] => m = n
        /\ \A n \in DOMAIN ids :
              Cardinality({k \in DOMAIN all_nodes : all_nodes[k] = n}) = 1

\* node 3 is held twice by node 1: it has one id and is listed twice
C21_Witness ==
    /\ pcA = "rendered"
    /\ roots = <<1>>
    /\ heap[1].children = <<3, 3>>
    /\ Shared = {3}
    /\ DOMAIN ids = {1, 3}
    /\ all_nodes = <<1, 3, 3>>

\* the ids of the ends of every edge the renderer draws, in its order:
\* for parent in all_nodes: for child in parent.children
RECURSIVE TreeEdges(_, _, _)
TreeEdges(h, all, idmap) ==
    IF all = <<>> THEN <<>>
    ELSE [k \in DOMAIN h[Head(all)].children |->
             [child |-> idmap[h[Head(all)].children[k]], parent |-> idmap[Head(all)]]]
         \o TreeEdges(h, Tail(all), idmap)

BothRendered == pcA = "rendered" /\ twin.pc = "rendered"

----------------------------------------------------------------------------
(* Parser A: blank lines, document order, depth *)

\* C23: a plan line that is blank after trimming makes no node and leaves
\* the ancestor stack, the roots and every children list as they were, so
\* the parent of a later line is chosen as if the blank line were not there.
C23_BlankLineSkipped ==
    [][pcA = "loop" /\ ~NonBlank(plan_text') =>
          UNCHANGED <<heap, roots, stack, flat>>]_vars

\* a line of blanks was taken while two ancestors were open
C23_Witness ==
    /\ pcA = "loop"
    /\ plan_text # <<>>
    /\ ~NonBlank(plan_text)
    /\ Len(stack) = 2
    /\ Len(flat) = 2

\* C26: when the lines have parsed, nodes_flat (the nodes in the order of
\* their lines) is the pre-order walk of plan_roots, children left to right.
C26_FlatIsPreOrderOfRoots ==
    pcA = "parsed" => flat = PreOrderAll(roots)

\* two roots, the first with two children and a grandchild between them
C26_Witness ==
    /\ pcA = "parsed"
    /\ Len(roots) = 2
    /\ Len(flat) = 5
    /\ Len(heap[roots[1]].children) = 2
    /\ heap[heap[roots[1]].children[1]].children # <<>>
    /\ flat[5] = roots[2]

\* Every root has depth 0, every other node the depth of its parent + 1,
\* and two consecutive lines of the same indentation are siblings.
DepthsFollowParents ==
    /\ \A n \in Range(roots) : heap[n].depth = 0
    /\ \A n \in Range(flat) \ Range(roots) :
          heap[n].depth = heap[TheParent(n)].depth + 1
    /\ \A i \in 1..(Len(flat) - 1) :
          heap[flat[i]].depth = heap[flat[i + 1]].depth =>
              \/ {flat[i], flat[i + 1]} \subseteq Range(roots)
              \/ /\ {flat[i], flat[i + 1]} \cap Range(roots) = {}
                 /\ TheParent(flat[i]) = TheParent(flat[i + 1])

\* C27 (as stated): in every parsed plan the depth field of a node is its
\* distance from its root, and consecutive lines of the same indentation are
\* siblings.
C27_DepthIsDistanceFromRoot ==
    pcA = "parsed" => DepthsFollowParents

\* C27 (amended): the same, for plans in which no line is indented more than
\* one level below the line before it.
C27_DepthIsDistanceFromRootWithoutJumps ==
    pcA = "parsed" /\ NoJumps => DepthsFollowParents

\* a chain of three levels and then a sibling at the deepest level
C27_Witness ==
    /\ pcA = "parsed"
    /\ NoJumps
    /\ Len(flat) = 4
    /\ heap[flat[3]].depth = 2
    /\ heap[flat[4]].depth = 2
    /\ TheParent(flat[3]) = flat[2]
    /\ TheParent(flat[4]) = flat[2]

----------------------------------------------------------------------------
(* A call of parse_datafusion_explain_text and a call of                   *)
(* get_execution_time_breakdown on different artifacts, their steps         *)
(* interleaved in any order.  Each call has its own locals; neither        *)
(* function reads or writes a module-level name other than the compiled    *)
(* patterns.                                                               *)

\* texts with a header, a border and two more lines
InterleavedTexts ==
    {<<h, <<"+", "-", "-", "+", "-", "-", "+">>>> \o t :
        h \in HeaderLines, t \in TextsOfLen(2)}

InitI ==
    /\ lines \in InterleavedTexts
    /\ plan_lines = <<>>
    /\ pcT = "locate"
    /\ plan_text = <<>>
    /\ heap = <<>>
    /\ roots = <<>>
    /\ stack = <<>>
    /\ flat = <<>>
    /\ pcA = "idle"
    /\ ids = <<>>
    /\ all_nodes = <<>>
    /\ profile \in SampleProfiles \cup {Dict(JoinFields, <<NonDict>>)}
    /\ pcB = "start"
    /\ root_latency = 0
    /\ breakdown = <<>>
    /\ query_root = <<>>
    /\ nodes = <<>>
    /\ edges = <<>>
    /\ IdleN
    /\ IdleC
    /\ IdleD
    /\ IdleG
    /\ IdleR

NextI == NextT \/ NextB

SpecI == InitI /\ [][NextI]_vars

\* What _build_tree makes of the rows when nothing else runs: the node
\* dicts, roots and flat, and whether it returned.
Trimmed(s) ==
    LET first == CHOOSE i \in DOMAIN s : s[i] # SP /\ \A j \in 1..(i - 1) : s[j] = SP
        last == CHOOSE i \in DOMAIN s : s[i] # SP /\ \A j \in (i + 1)..Len(s) : s[j] = SP
    IN SubSeq(s, first, last)

RECURSIVE AloneBuild(_, _)
AloneBuild(rows, t) ==
    IF rows = <<>> \/ ~t.returns THEN t
    ELSE IF ~NonBlank(Head(rows)) THEN AloneBuild(Tail(rows), t)
    ELSE LET d == LeadingSpaces(Head(rows)) \div 2
             n == Len(t.heap) + 1
             node == [raw |-> Trimmed(Head(rows)), depth |-> d, children |-> <<>>]
             open == IF d > Len(t.stack) THEN t.stack ELSE SubSeq(t.stack, 1, d)
         IN IF d = 0
            THEN AloneBuild(Tail(rows),
                     [t EXCEPT !.heap = Append(@, node), !.roots = Append(@, n),
                               !.stack = <<n>>, !.flat = Append(@, n)])
            ELSE IF t.stack = <<>> THEN [t EXCEPT !.returns = FALSE]
            ELSE AloneBuild(Tail(rows),
                     [t EXCEPT !.heap = [Append(@, node) EXCEPT
                                            ![open[Len(open)]].children = Append(@, n)],
                               !.stack = Append(open, n),
                               !.flat = Append(@, n)])

AloneParse ==
    AloneBuild(PlanLinesOf(lines),
               [heap |-> <<>>, roots |-> <<>>, stack |-> <<>>, flat |-> <<>>,
                returns |-> TRUE])

\* What get_execution_time_breakdown gives for the profile when nothing
\* else runs.
AloneLatency ==
    IF find_latency(profile).value = <<>> THEN 0 ELSE find_latency(profile).value[1]

AloneTree ==
    LET f == build_operator_subtree(profile, AloneLatency)
    IN IF f.isdict THEN <<f.value>> ELSE f.value

AloneGraph ==
    assign_ids([name |-> "QUERY", type |-> "ROOT", timing |-> AloneLatency,
                overall_percentage |-> IF AloneLatency > 0 THEN Frac(100, 1) ELSE Zero,
                children |-> AloneTree],
               <<>>, 0, [nodes |-> <<>>, edges |-> <<>>, counter |-> 0]).st

C25_ExistingOutputKeptUnlessOverwrite ==
    \A i \in written : plan_files[i].exists => overwrite

\* the Snowflake directory driver, called without overwrite, has written
\* the image of a plan file that had one, and skipped nothing
C25_Witness ==
    /\ driver = "snowflake"
    /\ ~overwrite
    /\ pcD = "done"
    /\ plan_files = <<[content |-> "plan", exists |-> TRUE]>>
    /\ written = {1}
    /\ skipped = 0
    /\ processed = 1

\* The operator with the i-th smallest OPERATOR_ID, and the seconds it
\* reports for component c (0 when it does not report c).
OperatorAt(i) ==
    CHOOSE o \in Range(stats) :
        Cardinality({p \in Range(stats) : p.OPERATOR_ID < o.OPERATOR_ID}) = i - 1

ReportedSeconds(o, c) ==
    IF c \notin ComponentsOf(o) THEN [num |-> 0, den |-> 1]
    ELSE IF (LooksFraction(o) \/ LooksPercent(o)) /\ BaseOf(o) = {}
         THEN [num |-> 0, den |-> 1]
    ELSE Contribution(o, c, TRUE)

\* C28: after the plot's loop and padding, the list of every component is
\* aligned with the operators in ascending OPERATOR_ID order: entry i is
\* what operator i reports for the component, 0 when it reports none, also
\* when the component is first reported by a later operator.
C28_BreakdownAlignedWithOperators ==
    pcC = "done" =>
        \A c \in all_components :
            /\ Len(breakdown_data[c]) = Len(stats)
            /\ \A i \in 1..Len(stats) :
                  breakdown_data[c][i] = ReportedSeconds(OperatorAt(i), c)

\* component b is first reported by the second operator: its seconds
\* stand at the first operator's place and the padding 0 at the second's
C28_Witness ==
    /\ pcC = "done"
    /\ Len(stats) = 2
    /\ ComponentsOf(OperatorAt(1)) = {"a"}
    /\ ComponentsOf(OperatorAt(2)) = {"b"}
    /\ ReportedSeconds(OperatorAt(2), "b") # [num |-> 0, den |-> 1]
    /\ breakdown_data["b"] = <<ReportedSeconds(OperatorAt(2), "b"), [num |-> 0, den |-> 1]>>

----------------------------------------------------------------------------
(* DuckDB runner: main of duckdb/execute_queries.py, from the loop over    *)
(* the queries on.  The connection is set up, the query files exist and    *)
(* the cache flush before each query succeeds.  An execution of query q in *)
(* iteration i takes OwnTime(q, i), which the profile written in iteration *)
(* 0 reports as its latency.                                               *)

MaxQueries == 2

MaxIterations == 3

\* the elapsed time of the execution of query q in iteration i (i from 0)
OwnTime(q, i) == 10 * q + i

\* query_numbers: distinct query numbers in any order
QueryLists ==
    UNION {{s \in [1..n -> 1..MaxQueries] : \A a, b \in 1..n : s[a] = s[b] => a = b} :
              n \in 1..MaxQueries}

ResultsAfter_Always(res, q, times) == (q :> times) @@ res

\* if iteration_times: results[str(query_num)] = iteration_times
ResultsAfter(res, q, times) == IF times # <<>> THEN (q :> times) @@ res ELSE res

InitR ==
    /\ query_numbers \in QueryLists
    /\ iterations \in 0..MaxIterations
    /\ query_idx = 0
    /\ iter = 0
    /\ iteration_times = <<>>
    /\ elapsed = None
    /\ results = <<>>
    /\ profiling_output = ""
    /\ saved = None
    /\ executed = {}
    /\ pcR = "query"
    /\ plan_text = <<>>
    /\ heap = <<>>
    /\ roots = <<>>
    /\ stack = <<>>
    /\ flat = <<>>
    /\ pcA = "idle"
    /\ ids = <<>>
    /\ all_nodes = <<>>
    /\ profile = <<>>
    /\ pcB = "idle"
    /\ root_latency = 0
    /\ breakdown = <<>>
    /\ query_root = <<>>
    /\ nodes = <<>>
    /\ edges = <<>>
    /\ IdleN
    /\ IdleT
    /\ IdleC
    /\ IdleD
    /\ IdleG

restR == <<varsA, varsB, varsN, varsT, varsC, varsD, varsG>>

\* for query_num in query_numbers: read the query, iteration_times = []
NextQuery ==
    /\ pcR = "query"
    /\ query_idx < Len(query_numbers)
    /\ query_idx' = query_idx + 1
    /\ iteration_times' = <<>>
    /\ iter' = 0
    /\ pcR' = "iterate"
    /\ UNCHANGED <<query_numbers, iterations, elapsed, results, profiling_output,
                   saved, executed, restR>>

\* One pass of `for i in range(iterations)`: the try block and its handler.
\* The execution, or the reading of its profile, may raise; elapsed is
\* assigned only in iteration 0 and only when the profile file is there, and
\* reading it while unbound raises NameError.
RunIteration ==
    /\ pcR = "iterate"
    /\ iter < iterations
    /\ \E raises \in BOOLEAN, profile_found \in BOOLEAN :
          LET q == query_numbers[query_idx]
              now == IF iter = 0 /\ profile_found THEN Some(OwnTime(q, iter))
                     ELSE elapsed
          IN IF raises \/ now = None
             THEN /\ profiling_output' = ""
                  /\ pcR' = "broken"
                  /\ executed' = executed \cup
                        {[query |-> q, iter |-> iter, completed |-> FALSE]}
                  /\ UNCHANGED <<elapsed, iteration_times, iter>>
             ELSE /\ elapsed' = now
                  /\ iteration_times' = Append(iteration_times, now[1])
                  /\ profiling_output' = (IF iter = 0 THEN "profile_path" ELSE "")
                  /\ iter' = iter + 1
                  /\ executed' = executed \cup
                        {[query |-> q, iter |-> iter, completed |-> TRUE]}
                  /\ UNCHANGED pcR
    /\ UNCHANGED <<query_numbers, iterations, query_idx, results, saved, restR>>

\* after the inner loop, left by break or exhausted
FinishQuery ==
    /\ pcR = "broken" \/ (pcR = "iterate" /\ iter = iterations)
    /\ results' = ResultsAfter(results, query_numbers[query_idx], iteration_times)
    /\ pcR' = "query"
    /\ UNCHANGED <<query_numbers, iterations, query_idx, iter, iteration_times,
                   elapsed, profiling_output, saved, executed, restR>>

\* json.dump(results, f) after the loop over the queries
SaveResults ==
    /\ pcR = "query"
    /\ query_idx = Len(query_numbers)
    /\ saved' = Some(results)
    /\ pcR' = "done"
    /\ UNCHANGED <<query_numbers, iterations, query_idx, iter, iteration_times,
                   elapsed, results, profiling_output, executed, restR>>

NextR == NextQuery \/ RunIteration \/ FinishQuery \/ SaveResults

SpecR == InitR /\ [][NextR]_vars

\* C29: every recorded time is the elapsed time of the execution it stands
\* for: entry k of a query's times is the time of that query's k-th
\* iteration, not one measured in another iteration or for another query.
C29_RecordedTimeIsOwnTime ==
    /\ pcR \in {"iterate", "broken"} =>
          \A k \in DOMAIN iteration_times :
              iteration_times[k] = 10 * query_numbers[query_idx] + (k - 1)
    /\ \A q \in DOMAIN results :
          \A k \in DOMAIN results[q] : results[q][k] = 10 * q + (k - 1)

\* the second iteration of query 1 completed and the time of the first was
\* recorded for it
C29_Witness ==
    /\ pcR = "iterate"
    /\ query_numbers[query_idx] = 1
    /\ [query |-> 1, iter |-> 1, completed |-> TRUE] \in executed
    /\ iteration_times = <<10, 10>>

Completed(q) == {e \in executed : e.query = q /\ e.completed}

Failed(q) == {e \in executed : e.query = q /\ ~e.completed}

=============================================================================
